---- MODULE Spec2Model ----
(***************************************************************************)
(* A model of the Greybus/mikroBUS manifest parser of mnfs_parser.py:      *)
(* the Manifest aggregate, the descriptor constructors, the field          *)
(* accessors of MnfsParser, the section loop of MnfsParser.parse_file and  *)
(* the canonical emitter (the __str__ methods).                            *)
(*                                                                         *)
(* Python integers are unbounded, and the widths the parser enforces reach *)
(* 2^32 and 2^64, so an integer is its sign and its magnitude as a         *)
(* sequence of hexadecimal digits, most significant first, without leading *)
(* zeros (zero is <<0>>).  An integer literal in the text is its sign, its *)
(* prefix ("" or "0x") and the digits as they are written.                 *)
(***************************************************************************)
EXTENDS Integers, Sequences, FiniteSets, TLC

VARIABLES
    pc,         \* "idle", "loop" (inside parse_file's for), "returned", "raised"
    file,       \* the text of the file parse_file was called on
    cfg,        \* cfg_parser: the sections of the file read, in source order
    idx,        \* position of the section loop in cfg_parser.sections()
    manifest,   \* the local Manifest under construction in parse_file
    result,     \* what parse_file returned to its caller: <<>> or <<Manifest>>
    exc,        \* the exception that left parse_file, NoExc if none
    bundle_id,  \* the class attribute BundleDescriptor.bundle_id
    out,        \* the text of the last emission str(manifest): <<>> or <<text>>
    orig,       \* the Manifest that text was emitted from: <<>> or <<Manifest>>
    again,      \* the last call of str() was on a Manifest whose text was in out
    src,        \* what is being parsed: "file", or "emitted" for the text in out
    dir         \* the directory of manifest files the process works on

vars == <<pc, file, cfg, idx, manifest, result, exc, bundle_id, out, orig, again, src, dir>>

-----------------------------------------------------------------------------
(* Bounds of the model.                                                    *)

\* longest document: number of sections of a manifest file
MaxSections == 3
\* longest descriptors list a caller of the add methods builds
MaxDescriptors == 3

-----------------------------------------------------------------------------
(* Python values.                                                          *)

None == <<>>
Some(v) == <<v>>

RECURSIVE Norm(_)
\* the digits without their leading zeros; zero keeps one digit
Norm(ds) ==
    IF Len(ds) > 1 /\ Head(ds) = 0 THEN Norm(Tail(ds))
    ELSE IF ds = <<>> THEN <<0>> ELSE ds

RECURSIVE LongDiv(_, _, _, _)
\* ds (digits in base `base`, most significant first) divided by d, with the
\* remainder rem carried in: <<the quotient's digits, the remainder>>
LongDiv(ds, base, d, rem) ==
    IF ds = <<>> THEN << <<>>, rem >>
    ELSE LET cur  == rem * base + Head(ds)
             rest == LongDiv(Tail(ds), base, d, cur % d)
         IN  << <<cur \div d>> \o rest[1], rest[2] >>

RECURSIVE Convert(_, _, _)
\* the digits of the number ds (base `from`) in the base `to`
Convert(ds, from, to) ==
    LET qr == LongDiv(ds, from, to, 0)
        q  == Norm(qr[1])
    IN  IF q = <<0>> THEN <<qr[2]>> ELSE Append(Convert(q, from, to), qr[2])

\* a Python int
Int_(neg, mag) == [neg |-> neg /\ mag # <<0>>, mag |-> mag]

\* the Python int n, for a small natural number n of the source text
N(n) == Int_(FALSE, Convert(<<n>>, n + 1, 16))

\* a < b, a <= b on magnitudes
MagLess(a, b) ==
    \/ Len(a) < Len(b)
    \/ /\ Len(a) = Len(b)
       /\ \E i \in 1..Len(a) :
            /\ a[i] < b[i]
            /\ \A j \in 1..(i - 1) : a[j] = b[j]

\* int comparison a < b
Less(a, b) ==
    IF a.neg # b.neg THEN a.neg
    ELSE IF a.neg THEN MagLess(b.mag, a.mag) ELSE MagLess(a.mag, b.mag)

\* 2 ** (8 * num_bytes) - 1
MaxOfWidth(num_bytes) == Int_(FALSE, [i \in 1..(2 * num_bytes) |-> 15])

-----------------------------------------------------------------------------
(* Texts: what stands in a manifest file.                                  *)

\* an integer literal as written: sign, prefix and digits
Lit(neg, pfx, digits) == [kind |-> "int", neg |-> neg, pfx |-> pfx, digits |-> digits]
\* a text that is no number: the string s repeated rep times
Txt(s, rep) == [kind |-> "str", s |-> s, rep |-> rep]
\* '<' elems separated by blanks '>', with pad more blanks inside
Arr(lt, elems, gt, pad) ==
    [kind |-> "arr", lt |-> lt, elems |-> elems, gt |-> gt, pad |-> pad]

\* "{}".format(v): decimal
FormatDec(v) == Lit(v.neg, "", Convert(v.mag, 16, 10))
\* "{:#x}".format(v)
FormatHex(v) == Lit(v.neg, "0x", v.mag)

RECURSIVE SumLen(_)
\* len() of a text
TextLen(t) ==
    CASE t.kind = "int" -> (IF t.neg THEN 1 ELSE 0) + Len(t.pfx) + Len(t.digits)
      [] t.kind = "str" -> Len(t.s) * t.rep
      [] t.kind = "arr" -> (IF t.lt THEN 1 ELSE 0) + (IF t.gt THEN 1 ELSE 0)
                            + SumLen(t.elems) + t.pad
                            + (IF Len(t.elems) > 1 THEN Len(t.elems) - 1 ELSE 0)
SumLen(ts) == IF ts = <<>> THEN 0 ELSE TextLen(Head(ts)) + SumLen(Tail(ts))

\* the outcome of a call: a value, or an exception
Ok(v) == [ok |-> TRUE, val |-> Some(v), exc |-> [type |-> "", msg |-> ""]]
Raise(type, msg) == [ok |-> FALSE, val |-> None, exc |-> [type |-> type, msg |-> msg]]
NoExc == [type |-> "", msg |-> ""]
Val(r) == r.val[1]

\* int(text, base=0): decimal without leading zeros, or 0x-prefixed hexadecimal
PyInt0(t) ==
    IF /\ t.kind = "int"
       /\ t.digits # <<>>
       /\ \/ t.pfx = "0x"
          \/ /\ t.pfx = ""
             /\ \A i \in 1..Len(t.digits) : t.digits[i] < 10
             /\ (t.digits[1] = 0 => \A i \in 1..Len(t.digits) : t.digits[i] = 0)
    THEN Ok(Int_(t.neg, IF t.pfx = "0x" THEN Norm(t.digits)
                        ELSE Convert(t.digits, 10, 16)))
    ELSE Raise("ValueError", "invalid literal for int()")

\* int(text): base 10 only, leading zeros allowed
PyInt10(t) ==
    IF /\ t.kind = "int"
       /\ t.digits # <<>>
       /\ t.pfx = ""
       /\ \A i \in 1..Len(t.digits) : t.digits[i] < 10
    THEN Ok(Int_(t.neg, Convert(t.digits, 10, 16)))
    ELSE Raise("ValueError", "invalid literal for int()")

-----------------------------------------------------------------------------
(* A section of the file, as configparser hands it to parse_file:          *)
(*   hdr  the header text between the brackets: the first whitespace-      *)
(*        separated token `name`, the further tokens `args`, `quoted` when *)
(*        the first of them is written in double quotes, and `pad` when    *)
(*        the header text has leading or trailing blanks;                  *)
(*   opts the options of the section: option name -> text.                 *)

Hdr(name, args, quoted, pad) ==
    [name |-> name, args |-> args, quoted |-> quoted, pad |-> pad]
Section(hdr, opts) == [hdr |-> hdr, opts |-> opts]

\* MnfsParser's strings
MNFS_HEADER == "manifest-header"
INTERFACE_DESC == "interface-descriptor"
MIKROBUS_DESC == "mikrobus-descriptor"
STRING_DESC == "string-descriptor"
PROPERTY_DESC == "property-descriptor"
BUNDLE_DESC == "bundle-descriptor"
CPORT_DESC == "cport-descriptor"
DEVICE_DESC == "device-descriptor"
\* the twelve pin-state options, in the order parse_file reads them
MIKROBUS_STATES ==
    << "pwm-state", "int-state", "rx-state", "tx-state", "scl-state", "sda-state",
       "mosi-state", "miso-state", "sck-state", "cs-state", "rst-state", "an-state" >>

\* MnfsParser's sizes
MNFS_HEADER_VERSION_SIZE == 1
ID_DESC_SIZE == 1
MAX_SPEED_DESC_SIZE == 4
STRING_DESC_STRING_SIZE == 255
PROP_DESC_VALUE_SIZE == 255
BUNDLE_DESC_CLASS_SIZE == 1
CPORT_ID_DESC_SIZE == 2
CPORT_DESC_PROTOCOL_SIZE == 1

GB_VERSION_MAJOR == 0
GB_VERSION_MINOR == 1

\* PropertyDescriptor.PROP_VALUE_SIZE
PROP_VALUE_SIZE ==
    (N(0) :> 1) @@ (N(1) :> 1) @@ (N(2) :> 1) @@ (N(3) :> 1) @@ (N(4) :> 2) @@
    (N(5) :> 4) @@ (N(6) :> 8) @@ (N(7) :> 1) @@ (N(8) :> 1)

-----------------------------------------------------------------------------
(* Field accessors of MnfsParser.                                          *)

\* check_int with the upper limit excluded
check_int_OffByOne(int_val, num_bytes) ==
    IF Less(int_val, N(0)) \/ ~Less(int_val, MaxOfWidth(num_bytes))
    THEN Raise("ValueError", "out of range")
    ELSE Ok(int_val)

check_int(int_val, num_bytes) ==
    IF Less(int_val, N(0)) \/ Less(MaxOfWidth(num_bytes), int_val)
    THEN Raise("ValueError", "out of range")
    ELSE Ok(int_val)

\* section.split()[1].strip('"') is hdr.args[1], with or without the quotes
parse_id(section, num_bytes) ==
    IF Len(section.hdr.args) < 1 THEN Raise("Error", "missing id value")
    ELSE LET id_ == PyInt0(section.hdr.args[1])
         IN  IF ~id_.ok THEN Raise("Error", "invalid id value")
             ELSE IF ~check_int(Val(id_), num_bytes).ok
                  THEN Raise("Error", "invalid id value")
                  ELSE check_int(Val(id_), num_bytes)

get_option(section, option_name) ==
    IF option_name \in DOMAIN section.opts
    THEN Ok(section.opts[option_name])
    ELSE Raise("Error", "missing field")

check_option(section, option_name) == option_name \in DOMAIN section.opts

get_int_option(section, option_name, num_bytes) ==
    LET str_opt == get_option(section, option_name)
    IN  IF ~str_opt.ok THEN str_opt
        ELSE LET int_opt == PyInt0(Val(str_opt))
             IN  IF ~int_opt.ok THEN Raise("Error", "invalid value")
                 ELSE IF ~check_int(Val(int_opt), num_bytes).ok
                      THEN Raise("Error", "invalid value")
                      ELSE check_int(Val(int_opt), num_bytes)

get_str_option(section, option_name, max_) ==
    LET str_opt == get_option(section, option_name)
    IN  IF ~str_opt.ok THEN str_opt
        ELSE IF TextLen(Val(str_opt)) > max_ THEN Raise("Error", "is too long")
        ELSE str_opt

RECURSIVE MapInt(_)
\* list(map(int, ...)): the first literal that is no decimal number raises
MapInt(elems) ==
    IF elems = <<>> THEN Ok(<<>>)
    ELSE LET h == PyInt10(Head(elems))
         IN  IF ~h.ok THEN h
             ELSE LET t == MapInt(Tail(elems))
                  IN  IF ~t.ok THEN t ELSE Ok(<<Val(h)>> \o Val(t))

RECURSIVE CheckEach(_, _)
\* the loop `for values in val: self.__check_int(values, PROP_VALUE_SIZE[typ])`
CheckEach(val, typ) ==
    IF val = <<>> THEN Ok(<<>>)
    ELSE IF typ \notin DOMAIN PROP_VALUE_SIZE THEN Raise("KeyError", "typ")
    ELSE IF ~check_int(Head(val), PROP_VALUE_SIZE[typ]).ok
         THEN check_int(Head(val), PROP_VALUE_SIZE[typ])
         ELSE CheckEach(Tail(val), typ)

\* get_arr_option without the loop over the elements: no width is checked
get_arr_option_Unchecked(section, option_name, max_, typ) ==
    LET arr_opt == get_option(section, option_name)
    IN  IF ~arr_opt.ok THEN arr_opt
        ELSE LET a == Val(arr_opt)
             IN  IF TextLen(a) > max_ THEN Raise("Error", "is too long")
                 ELSE IF TextLen(a) = 0
                      THEN Raise("IndexError", "string index out of range")
                 ELSE IF ~(a.kind = "arr" /\ a.lt /\ a.gt)
                      THEN Raise("Error", "does not start with < or end with >")
                 ELSE MapInt(a.elems)

get_arr_option(section, option_name, max_, typ) ==
    LET arr_opt == get_option(section, option_name)
    IN  IF ~arr_opt.ok THEN arr_opt
        ELSE LET a == Val(arr_opt)
             IN  IF TextLen(a) > max_ THEN Raise("Error", "is too long")
                 ELSE IF TextLen(a) = 0
                      THEN Raise("IndexError", "string index out of range")
                 ELSE IF ~(a.kind = "arr" /\ a.lt /\ a.gt)
                      THEN Raise("Error", "does not start with < or end with >")
                 ELSE LET val == MapInt(a.elems)
                      IN  IF ~val.ok THEN val
                          ELSE IF ~CheckEach(Val(val), typ).ok
                               THEN CheckEach(Val(val), typ)
                               ELSE val

-----------------------------------------------------------------------------
(* Sequencing of calls that may raise: F is applied to the value of r, and *)
(* an exception of r propagates.                                           *)

Bind(r, F(_)) == IF r.ok THEN F(Val(r)) ELSE r

-----------------------------------------------------------------------------
(* The descriptors.                                                        *)

\* ManifestHeader with `and` for `or`: one matching number is enough
ManifestHeader_And(major, minor) ==
    IF major # N(GB_VERSION_MAJOR) /\ minor # N(GB_VERSION_MINOR)
    THEN Raise("Error", "invalid format version")
    ELSE Ok([major |-> major, minor |-> minor])

ManifestHeader(major, minor) ==
    IF major # N(GB_VERSION_MAJOR) \/ minor # N(GB_VERSION_MINOR)
    THEN Raise("Error", "invalid format version")
    ELSE Ok([major |-> major, minor |-> minor])

InterfaceDescriptor(vendor_string_id, product_string_id, section) ==
    Ok([kind |-> "interface", section |-> section, used |-> TRUE,
        vsid |-> vendor_string_id, psid |-> product_string_id])

\* states: the twelve pin states pwm, int, rx, tx, scl, sda, mosi, miso, sck,
\* cs, rst, an, by the name of their option
MikrobusDescriptor(states, section) ==
    Ok([kind |-> "mikrobus", section |-> section, used |-> TRUE, states |-> states])

\* StringDescriptor without the check of the id
StringDescriptor_NoZeroCheck(id_, string, section) ==
    Ok([kind |-> "string", section |-> section, used |-> FALSE,
        id_ |-> id_, string |-> string, parent |-> None])

StringDescriptor(id_, string, section) ==
    IF id_ = N(0) THEN Raise("Error", "invalid id (cannot be 0)")
    ELSE Ok([kind |-> "string", section |-> section, used |-> FALSE,
             id_ |-> id_, string |-> string, parent |-> None])

\* what a parent reference gives access to: the descriptor referred to, by the
\* fields that are set once, at its construction
Ref(desc) == [f \in DOMAIN desc \ {"parent", "used"} |-> desc[f]]

\* the setter of StringDescriptor.parent without the check: the last
\* assignment wins
StringDescriptor_parent_Overwrite(d, desc) ==
    Ok([d EXCEPT !.used = TRUE, !.parent = Some(Ref(desc))])

\* StringDescriptor.parent, the setter: d.parent = desc
StringDescriptor_parent(d, desc) ==
    IF d.parent # None THEN Raise("Error", "multiple references")
    ELSE Ok([d EXCEPT !.used = TRUE, !.parent = Some(Ref(desc))])

\* BundleDescriptor.bundle_class
bundle_class ==
    (N(0) :> "Control") @@ (N(1) :> "AP") @@ (N(5) :> "HID") @@
    (N(8) :> "Power Supply") @@ (N(10) :> "Bridged PHY") @@ (N(12) :> "Display") @@
    (N(13) :> "Camera") @@ (N(14) :> "Sensor") @@ (N(15) :> "Lights") @@
    (N(16) :> "Vibrator") @@ (N(17) :> "Loopback") @@ (N(18) :> "Audio") @@
    (N(20) :> "SVC") @@ (N(21) :> "Firmware") @@ (N(254) :> "Raw") @@
    (N(255) :> "Vendor Specific")

\* warnings.warn(...): the module imports collections, configparser and sys, and
\* never warnings, so evaluating the name raises
warnings_warn(msg) == Raise("NameError", "name 'warnings' is not defined")

\* BundleDescriptor without the check of the class of the bundle 0
BundleDescriptor_NoControlCheck(id_, class_, section, counter) ==
    IF id_ # N(0) /\ id_ # N(counter)
    THEN [ok |-> FALSE, val |-> None, bundle_id |-> counter,
          exc |-> Raise("NameError", "name 'warnings' is not defined").exc]
    ELSE [ok |-> TRUE, exc |-> NoExc,
          bundle_id |-> IF id_ # N(0) THEN counter + 1 ELSE counter,
          val |-> Some([kind |-> "bundle", section |-> section, used |-> FALSE,
                        id_ |-> id_, class |-> class_, cports |-> <<>>])]

\* The constructor reads and advances the class attribute bundle_id: `counter`
\* is its value before the call, and the outcome carries its value after, in
\* the field bundle_id.
BundleDescriptor(id_, class_, section, counter) ==
    IF id_ = N(0) /\ class_ # N(0)
    THEN [ok |-> FALSE, val |-> None, bundle_id |-> counter,
          exc |-> Raise("Error", "invalid class (should be a 'Control' bundle)").exc]
    ELSE IF id_ # N(0) /\ id_ # N(counter)
    THEN [ok |-> FALSE, val |-> None, bundle_id |-> counter,
          exc |-> warnings_warn("non-incremental id").exc]
    ELSE [ok |-> TRUE, exc |-> NoExc,
          bundle_id |-> IF id_ # N(0) THEN counter + 1 ELSE counter,
          val |-> Some([kind |-> "bundle", section |-> section, used |-> FALSE,
                        id_ |-> id_, class |-> class_, cports |-> <<>>])]

class_name(desc) ==
    IF desc.class \in DOMAIN bundle_class THEN bundle_class[desc.class] ELSE "Reserved"

\* CPortDescriptor.cport_protocol: the protocol names
cport_protocol ==
    (N(0) :> "Control") @@ (N(1) :> "AP") @@ (N(2) :> "GPIO") @@ (N(3) :> "I2C") @@
    (N(4) :> "UART") @@ (N(5) :> "HID") @@ (N(6) :> "USB") @@ (N(7) :> "SDIO") @@
    (N(8) :> "Power Supply") @@ (N(9) :> "PWM") @@ (N(11) :> "SPI") @@
    (N(12) :> "Display") @@ (N(13) :> "Camera Management") @@ (N(14) :> "Sensor") @@
    (N(15) :> "Lights") @@ (N(16) :> "Vibrator") @@ (N(17) :> "Loopback") @@
    (N(18) :> "Audio Management") @@ (N(19) :> "Audio Data") @@ (N(20) :> "SVC") @@
    (N(21) :> "Firmware") @@ (N(22) :> "Camera Data") @@ (N(254) :> "Raw") @@
    (N(255) :> "Vendor Specific")

\* CPortDescriptor without the check of the protocol of the cport 0
CPortDescriptor_NoControlCheck(id_, bundle, protocol, section) ==
    Ok([kind |-> "cport", section |-> section, used |-> TRUE,
        id_ |-> id_, bundle |-> bundle, protocol |-> protocol])

CPortDescriptor(id_, bundle, protocol, section) ==
    IF id_ = N(0) /\ protocol # N(0)
    THEN Raise("Error", "invalid protocol (should be a 'Control' CPort)")
    ELSE Ok([kind |-> "cport", section |-> section, used |-> TRUE,
             id_ |-> id_, bundle |-> bundle, protocol |-> protocol])

protocol_name(desc) ==
    IF desc.protocol \in DOMAIN cport_protocol
    THEN cport_protocol[desc.protocol] ELSE "Reserved"

PropertyDescriptor(id_, name_stringid, typ, value, section) ==
    IF id_ = N(0) THEN Raise("Error", "invalid id (cannot be 0)")
    ELSE Ok([kind |-> "property", section |-> section, used |-> FALSE,
             id_ |-> id_, name_stringid |-> name_stringid, typ |-> typ,
             value |-> value, parent |-> None])

\* PropertyDescriptor.parent, the setter: d.parent = desc
PropertyDescriptor_parent(d, desc) ==
    IF d.parent # None THEN Raise("Error", "multiple references")
    ELSE Ok([d EXCEPT !.used = TRUE, !.parent = Some(Ref(desc))])

\* props: driverstr, protocol, reg, irq, irq_type, maxspeedhz, mode, prop_link,
\* gpio_link, reg_link, clock_link
DeviceDescriptor(id_, props, section) ==
    Ok([kind |-> "device", section |-> section, used |-> FALSE, id_ |-> id_,
        driver_string_id |-> props[1], protocol |-> props[2], reg |-> props[3],
        irq |-> props[4], irq_type |-> props[5], max_speed_hz |-> props[6],
        mode |-> props[7], prop_link |-> props[8], gpio_link |-> props[9],
        reg_link |-> props[10], clock_link |-> props[11]])

-----------------------------------------------------------------------------
(* The Manifest.                                                           *)

\* Manifest.__init__
Manifest ==
    [header |-> None, descriptors |-> <<>>, string_descs |-> <<>>,
     device_descs |-> <<>>, property_descs |-> <<>>, interface_desc |-> None,
     mikrobus_desc |-> None, bundle_descs |-> <<>>, cport_descs |-> <<>>]

add_header(m, hdr) == Ok([m EXCEPT !.header = Some(hdr)])

\* add_desc putting the descriptor at the front of the list
add_desc_Prepend(m, desc) == [m EXCEPT !.descriptors = <<desc>> \o @]

add_desc(m, desc) == [m EXCEPT !.descriptors = Append(@, desc)]

\* With assertions enabled (the interpreter's default) the failing assert
\* evaluates its message, which reads the attribute self.instances: a Manifest
\* has none.
add_interface_desc(m, desc) ==
    IF m.interface_desc # None
    THEN Raise("AttributeError", "'Manifest' object has no attribute 'instances'")
    ELSE Ok(add_desc([m EXCEPT !.interface_desc = Some(desc)], desc))

\* add_mikrobus_desc with the guard add_interface_desc has
add_mikrobus_desc_Guarded(m, desc) ==
    IF m.mikrobus_desc # None
    THEN Raise("Error", "multiple instances of 'mikrobus-descriptor'")
    ELSE Ok(add_desc([m EXCEPT !.mikrobus_desc = Some(desc)], desc))

add_mikrobus_desc(m, desc) ==
    Ok(add_desc([m EXCEPT !.mikrobus_desc = Some(desc)], desc))

\* add_desc_dict without the test: the descriptor takes the place of the one
\* stored under its id
add_desc_dict_Replace(dict_, desc) ==
    Ok((desc.id_ :> desc) @@ dict_)

add_desc_dict(dict_, desc) ==
    IF desc.id_ \in DOMAIN dict_
    THEN Raise("Error", "duplicated 'id' for descriptors")
    ELSE Ok((desc.id_ :> desc) @@ dict_)

add_string_desc(m, desc) ==
    Bind(add_desc_dict(m.string_descs, desc),
         LAMBDA d : Ok(add_desc([m EXCEPT !.string_descs = d], desc)))

add_property_desc(m, desc) ==
    Bind(add_desc_dict(m.property_descs, desc),
         LAMBDA d : Ok(add_desc([m EXCEPT !.property_descs = d], desc)))

add_device_desc(m, desc) ==
    Bind(add_desc_dict(m.device_descs, desc),
         LAMBDA d : Ok(add_desc([m EXCEPT !.device_descs = d], desc)))

add_bundle_desc(m, desc) ==
    Bind(add_desc_dict(m.bundle_descs, desc),
         LAMBDA d : Ok(add_desc([m EXCEPT !.bundle_descs = d], desc)))

add_cport_desc(m, desc) ==
    Bind(add_desc_dict(m.cport_descs, desc),
         LAMBDA d : Ok(add_desc([m EXCEPT !.cport_descs = d], desc)))

-----------------------------------------------------------------------------
(* The branches of the section loop of parse_file.  Each takes the section *)
(* and the Manifest built so far, and yields the Manifest with the         *)
(* section's descriptor registered, or the exception raised.               *)

parse_header(section, m) ==
    Bind(get_int_option(section, "version-major", MNFS_HEADER_VERSION_SIZE), LAMBDA vmaj :
    Bind(get_int_option(section, "version-minor", MNFS_HEADER_VERSION_SIZE), LAMBDA vmin :
    Bind(ManifestHeader(vmaj, vmin), LAMBDA header :
    add_header(m, header))))

parse_interface(section, m) ==
    Bind(get_int_option(section, "vendor-string-id", ID_DESC_SIZE), LAMBDA vsid :
    Bind(get_int_option(section, "product-string-id", ID_DESC_SIZE), LAMBDA psid :
    Bind(InterfaceDescriptor(vsid, psid, section.hdr), LAMBDA interface :
    add_interface_desc(m, interface))))

RECURSIVE get_int_options(_, _, _)
\* get_int_option for each of the names in turn
get_int_options(section, names, num_bytes) ==
    IF names = <<>> THEN Ok(<<>>)
    ELSE Bind(get_int_option(section, Head(names), num_bytes), LAMBDA v :
         Bind(get_int_options(section, Tail(names), num_bytes), LAMBDA vs :
         Ok(<<v>> \o vs)))

parse_mikrobus(section, m) ==
    Bind(get_int_options(section, MIKROBUS_STATES, ID_DESC_SIZE), LAMBDA vs :
    Bind(MikrobusDescriptor(
            [n \in {MIKROBUS_STATES[i] : i \in 1..Len(MIKROBUS_STATES)} |->
                vs[CHOOSE i \in 1..Len(MIKROBUS_STATES) : MIKROBUS_STATES[i] = n]],
            section.hdr), LAMBDA mikrobus :
    add_mikrobus_desc(m, mikrobus)))

parse_string(section, m) ==
    Bind(parse_id(section, ID_DESC_SIZE), LAMBDA id_ :
    Bind(get_str_option(section, "string", STRING_DESC_STRING_SIZE), LAMBDA str_ :
    Bind(StringDescriptor(id_, str_, section.hdr), LAMBDA string :
    add_string_desc(m, string))))

parse_property(section, m) ==
    Bind(parse_id(section, ID_DESC_SIZE), LAMBDA id_ :
    Bind(get_int_option(section, "name-string-id", ID_DESC_SIZE), LAMBDA name_stringid :
    Bind(get_int_option(section, "type", ID_DESC_SIZE), LAMBDA typ :
    Bind(get_arr_option(section, "value", PROP_DESC_VALUE_SIZE, typ), LAMBDA value :
    Bind(PropertyDescriptor(id_, name_stringid, typ, value, section.hdr), LAMBDA prop :
    add_property_desc(m, prop))))))

\* the outcome carries the class attribute bundle_id after the branch
parse_bundle(section, m, counter) ==
    LET id_    == parse_id(section, ID_DESC_SIZE)
        class_ == get_int_option(section, "class", BUNDLE_DESC_CLASS_SIZE)
    IN  IF ~id_.ok THEN [id_ EXCEPT !.val = None] @@ [bundle_id |-> counter]
        ELSE IF ~class_.ok THEN [class_ EXCEPT !.val = None] @@ [bundle_id |-> counter]
        ELSE LET bundle == BundleDescriptor(Val(id_), Val(class_), section.hdr, counter)
             IN  IF ~bundle.ok THEN bundle
                 ELSE add_bundle_desc(m, Val(bundle)) @@ [bundle_id |-> bundle.bundle_id]

\* parse_cport looking the bundle of the cport up and linking the cport to it
\* with BundleDescriptor.add_cport: a cport of no bundle is an Error
parse_cport_Linked(section, m) ==
    Bind(parse_id(section, CPORT_ID_DESC_SIZE), LAMBDA id_ :
    Bind(get_int_option(section, "bundle", ID_DESC_SIZE), LAMBDA bundle :
    Bind(get_int_option(section, "protocol", CPORT_DESC_PROTOCOL_SIZE), LAMBDA protocol :
    Bind(CPortDescriptor(id_, bundle, protocol, section.hdr), LAMBDA cport :
    IF bundle \notin DOMAIN m.bundle_descs THEN Raise("Error", "no such bundle")
    ELSE add_cport_desc(
            [m EXCEPT !.bundle_descs[bundle] =
                         [@ EXCEPT !.used = TRUE, !.cports = Append(@, cport)]],
            cport)))))

parse_cport(section, m) ==
    Bind(parse_id(section, CPORT_ID_DESC_SIZE), LAMBDA id_ :
    Bind(get_int_option(section, "bundle", ID_DESC_SIZE), LAMBDA bundle :
    Bind(get_int_option(section, "protocol", CPORT_DESC_PROTOCOL_SIZE), LAMBDA protocol :
    Bind(CPortDescriptor(id_, bundle, protocol, section.hdr), LAMBDA cport :
    add_cport_desc(m, cport)))))

\* `if self.__check_option(...): x = self.__get_int_option(...) else: x = 0`
get_int_option_if(present, section, option_name, num_bytes) ==
    IF present THEN get_int_option(section, option_name, num_bytes) ELSE Ok(N(0))

\* device_maxspeedhz_mode reading each of the two options when the section has
\* it, whatever the protocol
device_maxspeedhz_mode_IfPresent(section, protocol) ==
    Bind(get_int_option_if(check_option(section, "max-speed-hz"), section,
                           "max-speed-hz", MAX_SPEED_DESC_SIZE), LAMBDA maxspeedhz :
    Bind(get_int_option_if(check_option(section, "mode"), section, "mode",
                           ID_DESC_SIZE), LAMBDA mode :
    Ok(<<maxspeedhz, mode>>)))

\* `if protocol == 11: maxspeedhz = ...; mode = ... else: maxspeedhz=0; mode=0`:
\* the pair of the two
device_maxspeedhz_mode(section, protocol) ==
    Bind(get_int_option_if(protocol = N(11), section, "max-speed-hz",
                           MAX_SPEED_DESC_SIZE), LAMBDA maxspeedhz :
    Bind(get_int_option_if(protocol = N(11), section, "mode", ID_DESC_SIZE), LAMBDA mode :
    Ok(<<maxspeedhz, mode>>)))

\* device_reg requiring reg of no SPI device
device_reg_NotSpi(section, protocol) ==
    get_int_option_if(protocol # N(4) /\ protocol # N(11), section, "reg", ID_DESC_SIZE)

\* `if protocol != 4: reg = ... else: reg = 0`
device_reg(section, protocol) ==
    get_int_option_if(protocol # N(4), section, "reg", ID_DESC_SIZE)

\* device_irq reading each of the two options when the section has it
device_irq_Independent(section) ==
    Bind(get_int_option_if(check_option(section, "irq"), section, "irq",
                           ID_DESC_SIZE), LAMBDA irq :
    Bind(get_int_option_if(check_option(section, "irq-type"), section, "irq-type",
                           ID_DESC_SIZE), LAMBDA irq_type :
    Ok(<<irq, irq_type>>)))

\* `if (self.__check_option(..., DEVICE_DESC_IRQ)): irq = ...; irq_type = ...
\* else: irq= 0; irq_type= 0`: the pair of the two
device_irq(section) ==
    Bind(get_int_option_if(check_option(section, "irq"), section, "irq",
                           ID_DESC_SIZE), LAMBDA irq :
    Bind(get_int_option_if(check_option(section, "irq"), section, "irq-type",
                           ID_DESC_SIZE), LAMBDA irq_type :
    Ok(<<irq, irq_type>>)))

parse_device(section, m) ==
    Bind(parse_id(section, ID_DESC_SIZE), LAMBDA id_ :
    Bind(get_int_option(section, "driver-string-id", ID_DESC_SIZE), LAMBDA driverstr :
    Bind(get_int_option(section, "protocol", ID_DESC_SIZE), LAMBDA protocol :
    Bind(device_maxspeedhz_mode(section, protocol), LAMBDA spi :
    Bind(device_reg(section, protocol), LAMBDA reg :
    Bind(device_irq(section), LAMBDA irqs :
    Bind(get_int_option_if(check_option(section, "prop-link"), section, "prop-link",
                           ID_DESC_SIZE), LAMBDA prop_link :
    Bind(get_int_option_if(check_option(section, "gpio-link"), section, "gpio-link",
                           ID_DESC_SIZE), LAMBDA gpio_link :
    Bind(get_int_option_if(check_option(section, "reg-link"), section, "reg-link",
                           ID_DESC_SIZE), LAMBDA reg_link :
    Bind(get_int_option_if(check_option(section, "clock-link"), section, "clock-link",
                           ID_DESC_SIZE), LAMBDA clock_link :
    Bind(DeviceDescriptor(id_, << driverstr, protocol, reg, irqs[1], irqs[2], spi[1],
                                  spi[2], prop_link, gpio_link, reg_link, clock_link >>,
                          section.hdr), LAMBDA device :
    add_device_desc(m, device))))))))))))

\* The body of `for section in cfg_parser.sections()`: the if/elif chain.  An
\* exact name has no further token; the other kinds go by the first token.
parse_section(section, m, counter) ==
    LET name  == section.hdr.name
        exact == section.hdr.args = <<>>
        keep(r) == [ok |-> r.ok, val |-> r.val, exc |-> r.exc, bundle_id |-> counter]
    IN  IF section.hdr.pad THEN keep(Raise("Error", "invalid spaces"))
        ELSE IF name = MNFS_HEADER /\ exact THEN keep(parse_header(section, m))
        ELSE IF name = INTERFACE_DESC /\ exact THEN keep(parse_interface(section, m))
        ELSE IF name = MIKROBUS_DESC /\ exact THEN keep(parse_mikrobus(section, m))
        ELSE IF name = STRING_DESC THEN keep(parse_string(section, m))
        ELSE IF name = PROPERTY_DESC THEN keep(parse_property(section, m))
        ELSE IF name = BUNDLE_DESC THEN parse_bundle(section, m, counter)
        ELSE IF name = CPORT_DESC THEN keep(parse_cport(section, m))
        ELSE IF name = DEVICE_DESC THEN keep(parse_device(section, m))
        ELSE keep(Raise("Error", "invalid descriptor"))

-----------------------------------------------------------------------------
(* The text of a manifest: a sequence of items.  A block is a section with *)
(* the comment line written above its header (<<>> if none); a line is a   *)
(* line of text that is neither a header, an option nor a comment.         *)

Block(comment, hdr, opts) ==
    [kind |-> "block", comment |-> comment, hdr |-> hdr, opts |-> opts]
Line(text) == [kind |-> "line", text |-> text]

RECURSIVE sorted_Descending(_)
\* sorted with reverse=True
sorted_Descending(keys) ==
    IF keys = {} THEN <<>>
    ELSE LET k == CHOOSE x \in keys : \A y \in keys \ {x} : Less(y, x)
         IN  <<k>> \o sorted_Descending(keys \ {k})

RECURSIVE sorted(_)
\* sorted(keys): ascending
sorted(keys) ==
    IF keys = {} THEN <<>>
    ELSE LET k == CHOOSE x \in keys : \A y \in keys \ {x} : Less(x, y)
         IN  <<k>> \o sorted(keys \ {k})

\* ManifestHeader.__str__
ManifestHeader_str(h) ==
    Block(<<>>, Hdr(MNFS_HEADER, <<>>, FALSE, FALSE),
          ("version-major" :> FormatDec(h.major)) @@
          ("version-minor" :> FormatDec(h.minor)))

InterfaceDescriptor_str(d) ==
    Block(<<>>, Hdr(INTERFACE_DESC, <<>>, FALSE, FALSE),
          ("vendor-string-id" :> FormatHex(d.vsid)) @@
          ("product-string-id" :> FormatHex(d.psid)))

MikrobusDescriptor_str(d) ==
    Block(<<>>, Hdr(MIKROBUS_DESC, <<>>, FALSE, FALSE),
          [n \in DOMAIN d.states |-> FormatHex(d.states[n])])

\* the parent of a string is whatever was assigned: the comment reads its vsid
\* and psid
StringDescriptor_str(d) ==
    Block(IF d.parent # None
          THEN IF d.id_ = d.parent[1].vsid THEN <<"; Interface vendor string">>
               ELSE IF d.id_ = d.parent[1].psid THEN <<"; Interface product string">>
               ELSE <<>>
          ELSE <<>>,
          Hdr(STRING_DESC, <<FormatHex(d.id_)>>, FALSE, FALSE),
          "string" :> d.string)

BundleDescriptor_str(d) ==
    Block(<<"; class on Bundle", class_name(d), FormatDec(d.id_)>>,
          Hdr(BUNDLE_DESC, <<FormatHex(d.id_)>>, FALSE, FALSE),
          "class" :> FormatHex(d.class))

CPortDescriptor_str(d) ==
    Block(<<"; protocol on CPort", protocol_name(d), FormatDec(d.id_)>>,
          Hdr(CPORT_DESC, <<FormatHex(d.id_)>>, FALSE, FALSE),
          ("bundle" :> FormatHex(d.bundle)) @@ ("protocol" :> FormatHex(d.protocol)))

\* str(self.value) without '[', ']' and ',': the elements in decimal, one blank
\* between two of them
PropertyDescriptor_str(d) ==
    Block(<<>>, Hdr(PROPERTY_DESC, <<FormatHex(d.id_)>>, FALSE, FALSE),
          ("name-string-id" :> FormatDec(d.name_stringid)) @@
          ("type" :> FormatDec(d.typ)) @@
          ("value" :> Arr(TRUE, [i \in 1..Len(d.value) |-> FormatDec(d.value[i])],
                          TRUE, 0)))

DeviceDescriptor_str(d) ==
    Block(<<>>, Hdr(DEVICE_DESC, <<FormatHex(d.id_)>>, FALSE, FALSE),
          ("driver-string-id" :> FormatHex(d.driver_string_id)) @@
          ("protocol" :> FormatHex(d.protocol)) @@
          ("reg" :> FormatHex(d.reg)) @@
          ("irq" :> FormatHex(d.irq)) @@
          ("irq-type" :> FormatHex(d.irq_type)) @@
          ("max-speed-hz" :> FormatHex(d.max_speed_hz)) @@
          ("mode" :> FormatHex(d.mode)) @@
          ("prop-link" :> FormatHex(d.prop_link)) @@
          ("gpio-link" :> FormatHex(d.gpio_link)) @@
          ("reg-link" :> FormatHex(d.reg_link)) @@
          ("clock-link" :> FormatHex(d.clock_link)))

\* the blocks of the descriptors of dict_, by ascending key
StrSorted(dict_, Str(_)) ==
    LET ks == sorted(DOMAIN dict_) IN [i \in 1..Len(ks) |-> Str(dict_[ks[i]])]

\* Manifest.__str__ going through the descriptors list instead of the sorted
\* keys of the maps: the blocks are in the order of declaration
Manifest_str_Declared(m) ==
    LET Str(d) ==
            CASE d.kind = "interface" -> InterfaceDescriptor_str(d)
              [] d.kind = "mikrobus" -> MikrobusDescriptor_str(d)
              [] d.kind = "device" -> DeviceDescriptor_str(d)
              [] d.kind = "property" -> PropertyDescriptor_str(d)
              [] d.kind = "string" -> StringDescriptor_str(d)
              [] d.kind = "bundle" -> BundleDescriptor_str(d)
              [] d.kind = "cport" -> CPortDescriptor_str(d)
    IN  << IF m.header = None THEN Line("None") ELSE ManifestHeader_str(m.header[1]) >>
        \o [i \in 1..Len(m.descriptors) |-> Str(m.descriptors[i])]

\* Manifest.__str__; "{}".format(None) is the line "None"
Manifest_str(m) ==
    << IF m.header = None THEN Line("None") ELSE ManifestHeader_str(m.header[1]) >>
    \o << IF m.interface_desc = None THEN Line("None")
          ELSE InterfaceDescriptor_str(m.interface_desc[1]) >>
    \o (IF m.mikrobus_desc # None THEN <<MikrobusDescriptor_str(m.mikrobus_desc[1])>>
        ELSE <<>>)
    \o StrSorted(m.device_descs, DeviceDescriptor_str)
    \o StrSorted(m.property_descs, PropertyDescriptor_str)
    \o StrSorted(m.string_descs, StringDescriptor_str)
    \o StrSorted(m.bundle_descs, BundleDescriptor_str)
    \o StrSorted(m.cport_descs, CPortDescriptor_str)

\* "{}".format(manifest): the text, or the exception of a string descriptor
\* whose parent has no vsid
format(m) ==
    IF \E k \in DOMAIN m.string_descs :
          /\ m.string_descs[k].parent # None
          /\ "vsid" \notin DOMAIN m.string_descs[k].parent[1]
    THEN Raise("AttributeError", "object has no attribute 'vsid'")
    ELSE Ok(Manifest_str(m))

-----------------------------------------------------------------------------
(* The tokenizer: configparser.ConfigParser(...).read_file(f), strict by   *)
(* default.  Comments are dropped.  Reading stops at the first line that   *)
(* comes before any section header (MissingSectionHeaderError) or that     *)
(* repeats a section header (DuplicateSectionError); a line inside a       *)
(* section that is no option is reported when the file has been read       *)
(* (ParsingError).  A block whose header is the parser's default_section,  *)
(* [DEFAULT], is no section of sections(): it may be repeated, though not  *)
(* with an option it already has (DuplicateOptionError), and its options   *)
(* are those of every section that does not set them itself.               *)

read_file(text) ==
    LET IsDefault(item) ==
            /\ item.kind = "block"
            /\ item.hdr.name = "DEFAULT" /\ item.hdr.args = <<>> /\ ~item.hdr.pad
        stops == { p \in 1..Len(text) :
                     \/ /\ text[p].kind = "line"
                        /\ \A q \in 1..(p - 1) : text[q].kind = "line"
                     \/ /\ text[p].kind = "block"
                        /\ ~IsDefault(text[p])
                        /\ \E q \in 1..(p - 1) :
                             text[q].kind = "block" /\ text[q].hdr = text[p].hdr
                     \/ /\ IsDefault(text[p])
                        /\ \E q \in 1..(p - 1) :
                             /\ IsDefault(text[q])
                             /\ DOMAIN text[q].opts \cap DOMAIN text[p].opts # {} }
        first == CHOOSE p \in stops : \A q \in stops : p <= q
        IsSection(item) == item.kind = "block" /\ ~IsDefault(item)
        blocks == SelectSeq(text, IsSection)
        defaulting == { p \in 1..Len(text) : IsDefault(text[p]) }
        defaults ==
            [o \in UNION { DOMAIN text[p].opts : p \in defaulting } |->
                text[CHOOSE p \in defaulting : o \in DOMAIN text[p].opts].opts[o]]
        options(b) == IF defaulting = {} THEN b.opts ELSE b.opts @@ defaults
    IN  IF stops # {}
        THEN IF text[first].kind = "line"
             THEN Raise("MissingSectionHeaderError", "File contains no section headers")
             ELSE IF IsDefault(text[first])
             THEN Raise("DuplicateOptionError", "option already exists")
             ELSE Raise("DuplicateSectionError", "section already exists")
        ELSE IF \E p \in 1..Len(text) : text[p].kind = "line"
             THEN Raise("ParsingError", "Source contains parsing errors")
        ELSE Ok([i \in 1..Len(blocks) |-> Section(blocks[i].hdr, options(blocks[i]))])

-----------------------------------------------------------------------------
(* parse_file as a function of the text of the file and of the value of    *)
(* the class attribute bundle_id at the call: the Manifest returned or the *)
(* exception raised, with the value of bundle_id after the call.           *)

RECURSIVE parse_sections(_, _, _, _)
\* `for section in cfg_parser.sections()` from the i-th section on, and
\* `return manifest`
parse_sections(sections, i, m, counter) ==
    IF i > Len(sections)
    THEN [ok |-> TRUE, val |-> Some(m), exc |-> NoExc, bundle_id |-> counter]
    ELSE LET r == parse_section(sections[i], m, counter)
         IN  IF r.ok THEN parse_sections(sections, i + 1, Val(r), r.bundle_id) ELSE r

parse_file(text, counter) ==
    LET r == read_file(text)
    IN  IF r.ok THEN parse_sections(Val(r), 1, Manifest, counter)
        ELSE [ok |-> FALSE, val |-> None, exc |-> r.exc, bundle_id |-> counter]

-----------------------------------------------------------------------------
(* The manifest files the process is given.                                *)

\* the literal of n in decimal, and in hexadecimal
Dec(n) == FormatDec(N(n))
Hex(n) == FormatHex(N(n))

\* [name] and [name id]
Exact(name, opts) == Block(<<>>, Hdr(name, <<>>, FALSE, FALSE), opts)
WithId(name, id, opts) == Block(<<>>, Hdr(name, <<id>>, FALSE, FALSE), opts)

HeaderOpts(major, minor) == ("version-major" :> major) @@ ("version-minor" :> minor)
InterfaceOpts(vsid, psid) == ("vendor-string-id" :> vsid) @@ ("product-string-id" :> psid)
MikrobusOpts(v) == [n \in {MIKROBUS_STATES[i] : i \in 1..Len(MIKROBUS_STATES)} |-> v]
PropertyOpts(name, typ, value) ==
    ("name-string-id" :> name) @@ ("type" :> typ) @@ ("value" :> value)
CPortOpts(bundle, protocol) == ("bundle" :> bundle) @@ ("protocol" :> protocol)
DeviceOpts(driver, protocol) == ("driver-string-id" :> driver) @@ ("protocol" :> protocol)

\* the sections the files of the directory "manifests" are made of: one or
\* more of every kind, well formed and not
ManifestSections ==
    { Exact(MNFS_HEADER, HeaderOpts(Dec(0), Dec(1))),
      Exact(MNFS_HEADER, HeaderOpts(Dec(1), Dec(0))),
      Exact(INTERFACE_DESC, InterfaceOpts(Hex(1), Hex(2))),
      Exact(MIKROBUS_DESC, MikrobusOpts(Hex(1))),
      WithId(STRING_DESC, Dec(1), "string" :> Txt("spi", 1)),
      WithId(STRING_DESC, Dec(0), "string" :> Txt("spi", 1)),
      WithId(PROPERTY_DESC, Dec(1),
             PropertyOpts(Dec(1), Dec(4), Arr(TRUE, <<Dec(1), Dec(256)>>, TRUE, 0))),
      WithId(PROPERTY_DESC, Dec(2),
             PropertyOpts(Dec(1), Dec(0), Arr(TRUE, <<Dec(256)>>, TRUE, 0))),
      WithId(BUNDLE_DESC, Dec(0), "class" :> Hex(0)),
      WithId(BUNDLE_DESC, Dec(1), "class" :> Hex(10)),
      WithId(BUNDLE_DESC, Hex(1), "class" :> Hex(10)),
      WithId(BUNDLE_DESC, Dec(2), "class" :> Hex(10)),
      WithId(CPORT_DESC, Dec(1), CPortOpts(Dec(1), Hex(3))),
      WithId(DEVICE_DESC, Dec(1), DeviceOpts(Dec(1), Hex(4))),
      WithId("foo-descriptor", Dec(1), <<>>),
      Block(<<>>, Hdr(STRING_DESC, <<Dec(2)>>, FALSE, TRUE), "string" :> Txt("spi", 1)) }

\* 2^16 - 1, 2^16, 2^32 - 1 and 2^32 as written in hexadecimal
HexFFFF == Lit(FALSE, "0x", <<15, 15, 15, 15>>)
Hex10000 == Lit(FALSE, "0x", <<1, 0, 0, 0, 0>>)
HexFFFFFFFF == Lit(FALSE, "0x", <<15, 15, 15, 15, 15, 15, 15, 15>>)
Hex100000000 == Lit(FALSE, "0x", <<1, 0, 0, 0, 0, 0, 0, 0, 0>>)

SpiOpts(speed, mode) ==
    DeviceOpts(Dec(1), Hex(11)) @@ ("max-speed-hz" :> speed) @@ ("mode" :> mode)
    @@ ("reg" :> Dec(0))

\* the sections the files of the directory "fields" are made of: the values at
\* and next to the limits of each width, the versions, and the ids zero
FieldSections ==
    { Exact(MNFS_HEADER, HeaderOpts(Hex(0), Hex(1))),
      Exact(MNFS_HEADER, HeaderOpts(Dec(1), Dec(0))),
      Exact(MNFS_HEADER, HeaderOpts(Dec(0), Dec(0))),
      Exact(MNFS_HEADER, HeaderOpts(Dec(1), Dec(1))),
      Exact(INTERFACE_DESC, InterfaceOpts(Dec(255), Hex(255))),
      Exact(INTERFACE_DESC, InterfaceOpts(Dec(255), Dec(256))),
      WithId(STRING_DESC, Dec(255), "string" :> Txt("spi", 1)),
      WithId(STRING_DESC, Dec(256), "string" :> Txt("spi", 1)),
      WithId(STRING_DESC, Lit(TRUE, "", <<1>>), "string" :> Txt("spi", 1)),
      WithId(STRING_DESC, Dec(0), "string" :> Txt("spi", 1)),
      WithId(PROPERTY_DESC, Hex(0),
             PropertyOpts(Dec(1), Dec(0), Arr(TRUE, <<Dec(1)>>, TRUE, 0))),
      WithId(CPORT_DESC, HexFFFF, CPortOpts(Dec(1), Hex(255))),
      WithId(CPORT_DESC, Hex10000, CPortOpts(Dec(1), Hex(255))),
      WithId(DEVICE_DESC, Dec(1), SpiOpts(HexFFFFFFFF, Dec(255))),
      WithId(DEVICE_DESC, Dec(2), SpiOpts(Hex100000000, Dec(255))) }

\* the sections the files of the directory "reserved" are made of: bundles
\* and cports with the id 0 and with another id, with the code 0 and with
\* another code
ReservedSections ==
    { Exact(MNFS_HEADER, HeaderOpts(Dec(0), Dec(1))),
      Exact(INTERFACE_DESC, InterfaceOpts(Hex(1), Hex(2))),
      WithId(BUNDLE_DESC, Dec(0), "class" :> Hex(0)),
      WithId(BUNDLE_DESC, Dec(0), "class" :> Hex(1)),
      WithId(BUNDLE_DESC, Dec(1), "class" :> Hex(0)),
      WithId(BUNDLE_DESC, Dec(1), "class" :> Hex(10)),
      WithId(CPORT_DESC, Dec(0), CPortOpts(Dec(0), Hex(0))),
      WithId(CPORT_DESC, Dec(0), CPortOpts(Dec(0), Hex(3))),
      WithId(CPORT_DESC, Dec(1), CPortOpts(Dec(1), Hex(0))),
      WithId(CPORT_DESC, Dec(1), CPortOpts(Dec(1), Hex(3))) }

\* the protocols of a device: I2C, UART and SPI
I2C == Hex(3)
UART == Hex(4)
SPI == Hex(11)

\* the options of a device section: the two every device has, and more
Device(protocol, more) == DeviceOpts(Dec(1), protocol) @@ more

\* the sections the files of the directory "devices" are made of: devices of
\* the three protocols, with and without each of the conditional options
DeviceSections ==
    { Exact(MNFS_HEADER, HeaderOpts(Dec(0), Dec(1))),
      Exact(INTERFACE_DESC, InterfaceOpts(Hex(1), Hex(2))),
      WithId(DEVICE_DESC, Dec(1), Device(SPI, ("max-speed-hz" :> Hex(255)) @@
                                  ("mode" :> Dec(3)) @@ ("reg" :> Dec(1)))),
      WithId(DEVICE_DESC, Dec(1), Device(SPI, ("mode" :> Dec(3)) @@ ("reg" :> Dec(1)))),
      WithId(DEVICE_DESC, Dec(1), Device(SPI, ("max-speed-hz" :> Hex(255)) @@
                                  ("reg" :> Dec(1)))),
      WithId(DEVICE_DESC, Dec(1), Device(SPI, ("max-speed-hz" :> Hex(255)) @@
                                  ("mode" :> Dec(3)))),
      WithId(DEVICE_DESC, Dec(2), Device(I2C, ("max-speed-hz" :> Hex(255)) @@
                                  ("mode" :> Dec(3)) @@ ("reg" :> Dec(2)))),
      WithId(DEVICE_DESC, Dec(2), Device(I2C, <<>>)),
      WithId(DEVICE_DESC, Dec(3), Device(UART, <<>>)),
      WithId(DEVICE_DESC, Dec(3), Device(UART, "reg" :> Dec(5))),
      WithId(DEVICE_DESC, Dec(4), Device(I2C, ("reg" :> Dec(2)) @@ ("irq" :> Dec(6)) @@
                                  ("irq-type" :> Dec(7)) @@ ("prop-link" :> Dec(8)) @@
                                  ("reg-link" :> Dec(9)))),
      WithId(DEVICE_DESC, Dec(4), Device(I2C, ("reg" :> Dec(2)) @@ ("irq" :> Dec(6)))),
      WithId(DEVICE_DESC, Dec(5), Device(I2C, ("reg" :> Dec(2)) @@ ("irq-type" :> Dec(7)) @@
                                  ("gpio-link" :> Dec(8)) @@ ("clock-link" :> Dec(9)))) }

\* the sections the files of the directory "headers" are made of: one of
\* every kind, and headers that are none of them
HeaderSections ==
    { Exact(MNFS_HEADER, HeaderOpts(Dec(0), Dec(1))),
      Exact(INTERFACE_DESC, InterfaceOpts(Hex(1), Hex(2))),
      Exact(MIKROBUS_DESC, MikrobusOpts(Hex(1))),
      WithId(STRING_DESC, Dec(1), "string" :> Txt("spi", 1)),
      WithId(PROPERTY_DESC, Dec(1), PropertyOpts(Dec(1), Dec(0), Arr(TRUE, <<Dec(1)>>, TRUE, 0))),
      WithId(BUNDLE_DESC, Dec(0), "class" :> Hex(0)),
      WithId(CPORT_DESC, Dec(1), CPortOpts(Dec(1), Hex(3))),
      WithId(DEVICE_DESC, Dec(1), Device(UART, <<>>)),
      Block(<<>>, Hdr(STRING_DESC, <<Dec(2), Dec(3)>>, FALSE, FALSE), "string" :> Txt("spi", 1)),
      Exact(STRING_DESC, "string" :> Txt("spi", 1)),
      WithId(MNFS_HEADER, Dec(1), HeaderOpts(Dec(0), Dec(1))),
      Exact("foo", <<>>),
      Block(<<>>, Hdr(STRING_DESC, <<Dec(4)>>, FALSE, TRUE), "string" :> Txt("spi", 1)),
      Exact("DEFAULT", "string" :> Txt("spi", 1)) }

\* the sections the files of the directory "linked" are made of: strings and
\* a property, and the interface that names two of the strings
LinkedSections ==
    { Exact(MNFS_HEADER, HeaderOpts(Dec(0), Dec(1))),
      Exact(INTERFACE_DESC, InterfaceOpts(Hex(1), Hex(2))),
      WithId(STRING_DESC, Dec(1), "string" :> Txt("spi", 1)),
      WithId(STRING_DESC, Dec(2), "string" :> Txt("spi", 1)),
      WithId(PROPERTY_DESC, Dec(1), PropertyOpts(Dec(2), Dec(0), Arr(TRUE, <<Dec(1)>>, TRUE, 0))) }

\* the sections the files of the directory "sorted" are made of: several ids
\* of every id-keyed kind, to be declared in any order
SortedSections ==
    { Exact(MNFS_HEADER, HeaderOpts(Dec(0), Dec(1))),
      Exact(INTERFACE_DESC, InterfaceOpts(Hex(1), Hex(2))),
      Exact(MIKROBUS_DESC, MikrobusOpts(Hex(1))),
      WithId(STRING_DESC, Dec(2), "string" :> Txt("spi", 1)),
      WithId(STRING_DESC, Dec(16), "string" :> Txt("spi", 1)),
      WithId(PROPERTY_DESC, Dec(1), PropertyOpts(Dec(3), Dec(0), Arr(TRUE, <<Dec(1)>>, TRUE, 0))),
      WithId(DEVICE_DESC, Dec(1), Device(UART, <<>>)),
      WithId(BUNDLE_DESC, Dec(0), "class" :> Hex(0)),
      WithId(BUNDLE_DESC, Dec(1), "class" :> Hex(10)),
      WithId(CPORT_DESC, Dec(1), CPortOpts(Dec(1), Hex(3))) }

\* a decimal literal of the digits given
DecLit(digits) == Lit(FALSE, "", digits)
\* [property-descriptor id] of the type typ with the value given
Property(id, typ, value) == WithId(PROPERTY_DESC, Dec(id), PropertyOpts(Dec(1), Dec(typ), value))
\* '<' elems '>'
Wrapped(elems) == Arr(TRUE, elems, TRUE, 0)

\* the sections the files of the directory "properties" are made of: values at
\* and next to the limit of the width of each type, values that are not
\* wrapped, and values of 255 and 256 characters
PropertySections ==
    { Property(1, 0, Wrapped(<<Dec(255)>>)),
      Property(2, 0, Wrapped(<<Dec(1), Dec(256)>>)),
      Property(3, 4, Wrapped(<<Dec(65535)>>)),
      Property(4, 4, Wrapped(<<Dec(65536)>>)),
      Property(5, 5, Wrapped(<<DecLit(<<4, 2, 9, 4, 9, 6, 7, 2, 9, 5>>)>>)),
      Property(6, 5, Wrapped(<<DecLit(<<4, 2, 9, 4, 9, 6, 7, 2, 9, 6>>)>>)),
      Property(7, 6, Wrapped(<<DecLit(<<1, 8, 4, 4, 6, 7, 4, 4, 0, 7, 3, 7, 0, 9, 5, 5,
                                        1, 6, 1, 5>>)>>)),
      Property(8, 6, Wrapped(<<DecLit(<<1, 8, 4, 4, 6, 7, 4, 4, 0, 7, 3, 7, 0, 9, 5, 5,
                                        1, 6, 1, 6>>)>>)),
      Property(9, 8, Wrapped(<<Lit(TRUE, "", <<1>>)>>)),
      Property(10, 1, Arr(FALSE, <<Dec(1)>>, TRUE, 0)),
      Property(11, 2, Txt("", 0)),
      Property(12, 7, Arr(TRUE, <<Dec(1)>>, TRUE, 252)),
      Property(13, 7, Arr(TRUE, <<Dec(1)>>, TRUE, 253)),
      Property(14, 9, Wrapped(<<Dec(1)>>)) }

\* the sections the files of the directory "references" are made of:
\* descriptors that name others by id, those of the ids named and of other ids
ReferenceSections ==
    { Exact(INTERFACE_DESC, InterfaceOpts(Hex(1), Hex(2))),
      WithId(STRING_DESC, Dec(1), "string" :> Txt("spi", 1)),
      WithId(PROPERTY_DESC, Dec(1), PropertyOpts(Dec(1), Dec(0), Wrapped(<<Dec(1)>>))),
      WithId(PROPERTY_DESC, Dec(2), PropertyOpts(Dec(9), Dec(0), Wrapped(<<Dec(1)>>))),
      WithId(BUNDLE_DESC, Dec(1), "class" :> Hex(10)),
      WithId(CPORT_DESC, Dec(1), CPortOpts(Dec(1), Hex(3))),
      WithId(CPORT_DESC, Dec(2), CPortOpts(Dec(7), Hex(3))),
      WithId(DEVICE_DESC, Dec(1), Device(I2C, ("reg" :> Dec(2)) @@ ("prop-link" :> Dec(1)) @@
                                  ("gpio-link" :> Dec(5)) @@ ("reg-link" :> Dec(2)) @@
                                  ("clock-link" :> Dec(6)))),
      WithId(DEVICE_DESC, Dec(2), DeviceOpts(Dec(9), UART)) }

\* the sections the files of the directory "orders" are made of: sections to
\* be declared in one order or another
OrderSections ==
    { Exact(MNFS_HEADER, HeaderOpts(Dec(0), Dec(1))),
      Exact(INTERFACE_DESC, InterfaceOpts(Hex(1), Hex(2))),
      WithId(STRING_DESC, Dec(1), "string" :> Txt("spi", 1)),
      WithId(STRING_DESC, Dec(2), "string" :> Txt("spi", 1)),
      WithId(BUNDLE_DESC, Dec(1), "class" :> Hex(10)),
      WithId(BUNDLE_DESC, Dec(2), "class" :> Hex(10)),
      WithId(CPORT_DESC, Dec(1), CPortOpts(Dec(1), Hex(3))) }

\* the sections the files of the directory "adds" are made of
AddSections ==
    { Exact(MNFS_HEADER, HeaderOpts(Dec(0), Dec(1))),
      Exact(MIKROBUS_DESC, MikrobusOpts(Hex(1))),
      WithId(STRING_DESC, Dec(1), "string" :> Txt("spi", 1)) }

\* the pin states all of the value v
States(v) == [n \in {MIKROBUS_STATES[i] : i \in 1..Len(MIKROBUS_STATES)} |-> v]

\* the descriptors a caller of the add methods has built with the
\* constructors: two mikrobus descriptors, two strings of the id 1, and one
\* descriptor of every other kind
Built ==
    { Val(InterfaceDescriptor(N(1), N(2), Hdr(INTERFACE_DESC, <<>>, FALSE, FALSE))),
      Val(MikrobusDescriptor(States(N(1)), Hdr(MIKROBUS_DESC, <<>>, FALSE, FALSE))),
      Val(MikrobusDescriptor(States(N(0)), Hdr(MIKROBUS_DESC, <<>>, FALSE, FALSE))),
      Val(StringDescriptor(N(1), Txt("spi", 1), Hdr(STRING_DESC, <<Dec(1)>>, FALSE, FALSE))),
      Val(StringDescriptor(N(1), Txt("i2c", 1), Hdr(STRING_DESC, <<Hex(1)>>, FALSE, FALSE))),
      Val(PropertyDescriptor(N(1), N(1), N(0), <<N(1)>>,
                             Hdr(PROPERTY_DESC, <<Dec(1)>>, FALSE, FALSE))),
      Val(DeviceDescriptor(N(1), <<N(1), N(4), N(0), N(0), N(0), N(0), N(0), N(0), N(0),
                                   N(0), N(0)>>, Hdr(DEVICE_DESC, <<Dec(1)>>, FALSE, FALSE))),
      Val(BundleDescriptor(N(0), N(0), Hdr(BUNDLE_DESC, <<Dec(0)>>, FALSE, FALSE), 1)),
      Val(CPortDescriptor(N(1), N(1), N(3), Hdr(CPORT_DESC, <<Dec(1)>>, FALSE, FALSE))) }

RECURSIVE SeqsUpTo(_, _)
\* the sequences of at most n elements of S
SeqsUpTo(S, n) ==
    IF n = 0 THEN { <<>> }
    ELSE LET shorter == SeqsUpTo(S, n - 1)
         IN  shorter \cup { Append(t, x) : t \in shorter, x \in S }

Files(d) ==
    CASE d = "manifests" -> SeqsUpTo(ManifestSections, MaxSections)
      [] d = "fields" -> SeqsUpTo(FieldSections, MaxSections)
      [] d = "reserved" -> SeqsUpTo(ReservedSections, MaxSections)
      [] d = "devices" -> SeqsUpTo(DeviceSections, MaxSections)
      [] d = "headers" -> SeqsUpTo(HeaderSections, MaxSections)
      [] d = "linked" -> SeqsUpTo(LinkedSections, MaxSections)
      [] d = "sorted" -> SeqsUpTo(SortedSections, MaxSections)
      [] d = "properties" -> SeqsUpTo(PropertySections, MaxSections)
      [] d = "adds" -> SeqsUpTo(AddSections, MaxSections)
      [] d = "references" -> SeqsUpTo(ReferenceSections, MaxSections)
      [] d = "orders" -> SeqsUpTo(OrderSections, MaxSections)

-----------------------------------------------------------------------------
(* The process: calls of parse_file and of str() on what it returned.      *)

\* a process started on the directory d
InitOn(d) ==
    /\ pc = "idle"
    /\ file = <<>>
    /\ cfg = <<>>
    /\ idx = 1
    /\ manifest = Manifest
    /\ result = None
    /\ exc = NoExc
    /\ bundle_id = 1
    /\ out = None
    /\ orig = None
    /\ again = FALSE
    /\ src = "file"
    /\ dir = d

Init == InitOn("manifests")
InitFields == InitOn("fields")
InitReserved == InitOn("reserved")
InitDevices == InitOn("devices")
InitHeaders == InitOn("headers")
InitLinked == InitOn("linked")
InitSorted == InitOn("sorted")
InitProperties == InitOn("properties")
InitAdds == InitOn("adds")
InitReferences == InitOn("references")
InitOrders == InitOn("orders")

\* Begin with the class attribute set back to 1 by every call of parse_file
Begin_ResetCounter(text, source) ==
    LET r == read_file(text)
    IN  /\ src' = source
        /\ file' = text
        /\ result' = None
        /\ idx' = 1
        /\ manifest' = Manifest
        /\ out' = None
        /\ again' = FALSE
        /\ orig' = IF source = "emitted" THEN orig ELSE None
        /\ IF r.ok
           THEN pc' = "loop" /\ cfg' = Val(r) /\ exc' = NoExc
           ELSE pc' = "raised" /\ cfg' = <<>> /\ exc' = r.exc
        /\ bundle_id' = 1
        /\ UNCHANGED dir

\* parse_file up to the section loop: the file is read as a whole, and the
\* Manifest is created
Begin(text, source) ==
    LET r == read_file(text)
    IN  /\ src' = source
        /\ file' = text
        /\ result' = None
        /\ idx' = 1
        /\ manifest' = Manifest
        /\ out' = None
        /\ again' = FALSE
        /\ orig' = IF source = "emitted" THEN orig ELSE None
        /\ IF r.ok
           THEN pc' = "loop" /\ cfg' = Val(r) /\ exc' = NoExc
           ELSE pc' = "raised" /\ cfg' = <<>> /\ exc' = r.exc
        /\ UNCHANGED <<bundle_id, dir>>

\* parse_file(mnfs_file) on a file of the directory
ParseFile ==
    /\ pc = "idle"
    /\ \E text \in Files(dir) : Begin(text, "file")

\* parse_file on the text emitted from the Manifest just returned
ParseEmitted ==
    /\ pc = "returned"
    /\ out # None
    /\ Begin(out[1], "emitted")

\* ParseSection with the exception of a section swallowed: the loop goes on
\* with the next section
ParseSection_SkipInvalid ==
    /\ pc = "loop"
    /\ idx <= Len(cfg)
    /\ LET r == parse_section(cfg[idx], manifest, bundle_id)
       IN  /\ bundle_id' = r.bundle_id
           /\ manifest' = IF r.ok THEN Val(r) ELSE manifest
           /\ idx' = idx + 1
           /\ UNCHANGED <<pc, exc>>
    /\ UNCHANGED <<file, cfg, result, out, orig, again, src, dir>>

\* one iteration of the section loop
ParseSection ==
    /\ pc = "loop"
    /\ idx <= Len(cfg)
    /\ LET r == parse_section(cfg[idx], manifest, bundle_id)
       IN  /\ bundle_id' = r.bundle_id
           /\ IF r.ok
              THEN manifest' = Val(r) /\ idx' = idx + 1 /\ UNCHANGED <<pc, exc>>
              ELSE pc' = "raised" /\ exc' = r.exc /\ UNCHANGED <<manifest, idx>>
    /\ UNCHANGED <<file, cfg, result, out, orig, again, src, dir>>

\* `return manifest`, after the last section
Return ==
    /\ pc = "loop"
    /\ idx > Len(cfg)
    /\ pc' = "returned"
    /\ result' = Some(manifest)
    /\ UNCHANGED <<file, cfg, idx, manifest, exc, bundle_id, out, orig, again, src, dir>>

\* Emit marking the descriptors emitted as used
Emit_MarkUsed ==
    /\ pc = "returned"
    /\ LET m == result[1]
           marked == [m EXCEPT !.string_descs =
                         [k \in DOMAIN @ |-> [@[k] EXCEPT !.used = TRUE]]]
       IN  /\ out' = Some(Manifest_str(m))
           /\ orig' = Some(marked)
           /\ result' = Some(marked)
           /\ manifest' = marked
    /\ exc' = NoExc
    /\ again' = (out # None)
    /\ UNCHANGED <<pc, file, cfg, idx, bundle_id, src, dir>>

\* str(manifest) on the Manifest returned, which the caller may call again;
\* the text, or the exception, replaces that of the call before
Emit ==
    /\ pc = "returned"
    /\ LET r == format(result[1])
       IN  /\ out' = IF r.ok THEN r.val ELSE None
           /\ exc' = r.exc
    /\ orig' = result
    /\ again' = (out # None)
    /\ UNCHANGED <<pc, file, cfg, idx, manifest, result, bundle_id, src, dir>>

\* the caller is done with what the call returned or raised: the Manifest, the
\* exception and the text are dropped, and the class attribute stays
Finish ==
    /\ pc \in {"returned", "raised"}
    /\ pc' = "idle"
    /\ file' = <<>>
    /\ cfg' = <<>>
    /\ idx' = 1
    /\ manifest' = Manifest
    /\ result' = None
    /\ exc' = NoExc
    /\ out' = None
    /\ orig' = None
    /\ again' = FALSE
    /\ src' = "file"
    /\ UNCHANGED <<bundle_id, dir>>

\* desc.parent = p, by the caller on the string or property descriptor of key
\* k of the Manifest returned: the descriptor is the one object the map and
\* the list descriptors hold.  The caller drops the text emitted before.
SetParentOn(kind, k, p) ==
    /\ pc = "returned"
    /\ LET m == result[1]
           d == IF kind = "string" THEN m.string_descs[k] ELSE m.property_descs[k]
           r == IF kind = "string" THEN StringDescriptor_parent(d, p)
                ELSE PropertyDescriptor_parent(d, p)
           m2 == [m EXCEPT
                    !.descriptors = [i \in DOMAIN @ |->
                                        IF @[i].section = d.section THEN Val(r) ELSE @[i]],
                    !.string_descs = IF kind = "string" THEN [@ EXCEPT ![k] = Val(r)] ELSE @,
                    !.property_descs = IF kind = "property" THEN [@ EXCEPT ![k] = Val(r)]
                                       ELSE @]
       IN  IF r.ok
           THEN /\ result' = Some(m2)
                /\ manifest' = m2
                /\ exc' = NoExc
                /\ out' = None
                /\ orig' = None
                /\ again' = FALSE
           ELSE /\ exc' = r.exc
                /\ UNCHANGED <<result, manifest, out, orig, again>>
    /\ UNCHANGED <<pc, file, cfg, idx, bundle_id, src, dir>>

\* the descriptors of the kind that have a parent: their keys in the Manifest m
Children(m, kind) ==
    IF kind = "string" THEN DOMAIN m.string_descs ELSE DOMAIN m.property_descs

\* the descriptors of m that refer to others by id: the interface, by its
\* string ids, and the properties, by their name-string-id
Descriptors(m) ==
    { d \in { m.descriptors[i] : i \in 1..Len(m.descriptors) } :
        d.kind \in {"interface", "property"} }

SetParent ==
    /\ pc = "returned"
    /\ \E kind \in {"string", "property"} :
          \E k \in Children(result[1], kind) :
             \E p \in Descriptors(result[1]) : SetParentOn(kind, k, p)

\* m.add_<kind>_desc(desc): the add method of the kind of desc
add_kind_desc(m, desc) ==
    CASE desc.kind = "interface" -> add_interface_desc(m, desc)
      [] desc.kind = "mikrobus" -> add_mikrobus_desc(m, desc)
      [] desc.kind = "string" -> add_string_desc(m, desc)
      [] desc.kind = "property" -> add_property_desc(m, desc)
      [] desc.kind = "device" -> add_device_desc(m, desc)
      [] desc.kind = "bundle" -> add_bundle_desc(m, desc)
      [] desc.kind = "cport" -> add_cport_desc(m, desc)

\* the caller's call r of a method of the Manifest it holds, which the method
\* changes in place unless it raises.  The caller drops the text emitted
\* before.
Called(r) ==
    /\ IF r.ok
       THEN /\ result' = r.val
            /\ manifest' = Val(r)
            /\ exc' = NoExc
            /\ out' = None
            /\ orig' = None
            /\ again' = FALSE
       ELSE /\ exc' = r.exc
            /\ UNCHANGED <<result, manifest, out, orig, again>>
    /\ UNCHANGED <<pc, file, cfg, idx, bundle_id, src, dir>>

\* manifest.add_<kind>_desc(desc), by the caller on the Manifest returned
AddDescOn(desc) ==
    /\ pc = "returned"
    /\ Called(add_kind_desc(result[1], desc))

AddDesc ==
    /\ pc = "returned"
    /\ Len(result[1].descriptors) < MaxDescriptors
    /\ \E desc \in Built : AddDescOn(desc)

\* manifest.add_header(hdr), by the caller on the Manifest returned
AddHeader ==
    /\ pc = "returned"
    /\ Called(Bind(ManifestHeader(N(GB_VERSION_MAJOR), N(GB_VERSION_MINOR)),
                   LAMBDA hdr : add_header(result[1], hdr)))

Next == ParseFile \/ ParseEmitted \/ ParseSection \/ Return \/ Emit \/ Finish

Spec == Init /\ [][Next]_vars
SpecFields == InitFields /\ [][Next]_vars
SpecReserved == InitReserved /\ [][Next]_vars
SpecDevices == InitDevices /\ [][Next]_vars
SpecHeaders == InitHeaders /\ [][Next]_vars
SpecSorted == InitSorted /\ [][Next]_vars
SpecProperties == InitProperties /\ [][Next]_vars
SpecReferences == InitReferences /\ [][Next]_vars
SpecOrders == InitOrders /\ [][Next]_vars

\* the process whose caller links the descriptors of the Manifest returned
NextLinked == Next \/ SetParent
SpecLinked == InitLinked /\ [][NextLinked]_vars

\* the process whose caller adds descriptors to the Manifest returned
NextAdds == Next \/ AddDesc \/ AddHeader
SpecAdds == InitAdds /\ [][NextAdds]_vars

-----------------------------------------------------------------------------
(* Vocabulary of the properties.                                           *)

IsHeaderSection(s) == s.hdr.name = MNFS_HEADER /\ s.hdr.args = <<>> /\ ~s.hdr.pad

\* the section cfg[j] has been registered in the Manifest m
Registered(j, m) ==
    IF IsHeaderSection(cfg[j]) THEN m.header # None
    ELSE \E k \in 1..Len(m.descriptors) : m.descriptors[k].section = cfg[j].hdr

\* the number of sections among the first n that are no header
NumDescriptorSections(n) == Cardinality({ j \in 1..n : ~IsHeaderSection(cfg[j]) })

\* the section the loop is at, which is the one that raised when pc = "raised"
AtSection == cfg # <<>> /\ idx \in 1..Len(cfg)

KeyedKinds == {STRING_DESC, PROPERTY_DESC, DEVICE_DESC, BUNDLE_DESC, CPORT_DESC}
IdWidth(s) == IF s.hdr.name = CPORT_DESC THEN CPORT_ID_DESC_SIZE ELSE ID_DESC_SIZE
\* s is a section of an id-keyed kind whose id token denotes an id
Keyed(s) == ~s.hdr.pad /\ s.hdr.name \in KeyedKinds /\ parse_id(s, IdWidth(s)).ok
IdOf(s) == Val(parse_id(s, IdWidth(s)))
SameId(a, b) == Keyed(a) /\ Keyed(b) /\ a.hdr.name = b.hdr.name /\ IdOf(a) = IdOf(b)

\* s is a bundle or cport section of id 0 whose options are accepted
ReservedIdSection(s) ==
    /\ Keyed(s)
    /\ IdOf(s) = N(0)
    /\ \/ /\ s.hdr.name = BUNDLE_DESC
          /\ get_int_option(s, "class", BUNDLE_DESC_CLASS_SIZE).ok
       \/ /\ s.hdr.name = CPORT_DESC
          /\ get_int_option(s, "bundle", ID_DESC_SIZE).ok
          /\ get_int_option(s, "protocol", CPORT_DESC_PROTOCOL_SIZE).ok
\* the class of a bundle section, the protocol of a cport section
CodeOf(s) ==
    IF s.hdr.name = BUNDLE_DESC THEN Val(get_int_option(s, "class", BUNDLE_DESC_CLASS_SIZE))
    ELSE Val(get_int_option(s, "protocol", CPORT_DESC_PROTOCOL_SIZE))

\* s is a device section whose id, driver-string-id and protocol are accepted
DeviceSection(s) ==
    /\ Keyed(s)
    /\ s.hdr.name = DEVICE_DESC
    /\ get_int_option(s, "driver-string-id", ID_DESC_SIZE).ok
    /\ get_int_option(s, "protocol", ID_DESC_SIZE).ok
ProtocolOf(s) == Val(get_int_option(s, "protocol", ID_DESC_SIZE))
\* the value the option o of s denotes, as an integer literal
Written(s, o) == Val(PyInt0(s.opts[o]))
\* the descriptor registered in m for the section cfg[j]
DescOf(j, m) ==
    m.descriptors[CHOOSE k \in 1..Len(m.descriptors) : m.descriptors[k].section = cfg[j].hdr]
\* the Error of __get_option
MissingField == [type |-> "Error", msg |-> "missing field"]

\* the header h is one parse_file has a branch for
Recognized(h) ==
    /\ ~h.pad
    /\ \/ h.name \in {MNFS_HEADER, INTERFACE_DESC, MIKROBUS_DESC} /\ h.args = <<>>
       \/ h.name \in KeyedKinds
\* the kind of descriptor the branch of a header builds
KindOf(h) ==
    CASE h.name = INTERFACE_DESC -> "interface"
      [] h.name = MIKROBUS_DESC -> "mikrobus"
      [] h.name = STRING_DESC -> "string"
      [] h.name = PROPERTY_DESC -> "property"
      [] h.name = BUNDLE_DESC -> "bundle"
      [] h.name = CPORT_DESC -> "cport"
      [] h.name = DEVICE_DESC -> "device"
      [] OTHER -> "none"

\* the string or property descriptor of key k of the Manifest m
Child(m, kind, k) == IF kind = "string" THEN m.string_descs[k] ELSE m.property_descs[k]
MultipleReferences == [type |-> "Error", msg |-> "multiple references"]

\* the blocks of an emitted text, the place of a block in the order of the
\* kinds, and the id its header is written with
BlocksOf(text) ==
    LET IsBlock(item) == item.kind = "block" IN SelectSeq(text, IsBlock)
Rank(b) ==
    CASE b.hdr.name = MNFS_HEADER -> 1
      [] b.hdr.name = INTERFACE_DESC -> 2
      [] b.hdr.name = MIKROBUS_DESC -> 3
      [] b.hdr.name = DEVICE_DESC -> 4
      [] b.hdr.name = PROPERTY_DESC -> 5
      [] b.hdr.name = STRING_DESC -> 6
      [] b.hdr.name = BUNDLE_DESC -> 7
      [] b.hdr.name = CPORT_DESC -> 8
BlockId(b) == Val(PyInt0(b.hdr.args[1]))
\* the ids of the blocks of the kind `name` in the blocks bs
IdsOf(bs, name) == { BlockId(bs[p]) : p \in { q \in 1..Len(bs) : bs[q].hdr.name = name } }
\* the text in out is that of the Manifest the caller holds
Emitted == pc = "returned" /\ out # None /\ orig = result

\* s is accepted when it stands alone in a document (for a bundle: under some
\* value of the expected-next-id counter)
WellFormed(s) == \E c \in 0..(MaxSections + 1) : parse_section(s, Manifest, c).ok

-----------------------------------------------------------------------------
(* C1: parse_file is atomic.  It returns a Manifest only after the last    *)
(* section, and then every section of the document is registered in it and *)
(* nothing else is; when it raises, nothing is returned, the sections      *)
(* before the one that raised are registered and no later one has been     *)
(* processed.                                                              *)
C1_Atomic ==
    /\ result # None => pc = "returned"
    /\ pc = "returned" =>
          /\ result = Some(manifest)
          /\ exc = NoExc
          /\ Len(cfg) = Len(file)
          /\ \A j \in 1..Len(cfg) : Registered(j, result[1])
          /\ Len(result[1].descriptors) = NumDescriptorSections(Len(cfg))
    /\ pc = "raised" =>
          /\ result = None
          /\ exc # NoExc
          /\ \A j \in 1..(idx - 1) : Registered(j, manifest)
          /\ Len(manifest.descriptors) = NumDescriptorSections(idx - 1)
          /\ AtSection => ~Registered(idx, manifest)

\* the second of three sections raised: the first is registered, the third is not
C1_Witness ==
    /\ pc = "raised"
    /\ Len(cfg) = 3
    /\ idx = 2
    /\ Len(manifest.descriptors) = 1
    /\ result = None

-----------------------------------------------------------------------------
(* C2: every validation failure of parse_file is reported as the one error *)
(* kind Error.  Stated for the failures of the section loop outside the    *)
(* bundle branch (whose warning is the subject of C5): whatever section    *)
(* raised, the exception is an Error.                                      *)
C2_SingleErrorKind ==
    (pc = "raised" /\ AtSection /\ cfg[idx].hdr.name # BUNDLE_DESC) => exc.type = "Error"

-----------------------------------------------------------------------------
(* C3: two sections of the same id-keyed kind that denote the same id make *)
(* the parse fail with a duplicate-id error: no Manifest is returned for   *)
(* such a document, and when the second of the two, well formed in itself, *)
(* is the section that raised, the error is the duplicate-id Error.        *)
C3_DuplicateIdFails ==
    /\ pc = "returned" =>
          \A j, k \in 1..Len(cfg) : j # k => ~SameId(cfg[j], cfg[k])
    /\ ( /\ pc = "raised"
         /\ AtSection
         /\ WellFormed(cfg[idx])
         /\ \E j \in 1..(idx - 1) : SameId(cfg[j], cfg[idx]) )
       => exc = [type |-> "Error", msg |-> "duplicated 'id' for descriptors"]

-----------------------------------------------------------------------------
(* C4: every Manifest returned by parse_file has a header, of version      *)
(* (0, 1), exactly one interface descriptor and at most one mikrobus       *)
(* descriptor.                                                             *)
CountKind(m, kind) ==
    Cardinality({ k \in 1..Len(m.descriptors) : m.descriptors[k].kind = kind })

C4_ReturnedManifestComplete ==
    pc = "returned" =>
        /\ result[1].header = Some([major |-> N(0), minor |-> N(1)])
        /\ result[1].interface_desc # None
        /\ CountKind(result[1], "interface") = 1
        /\ CountKind(result[1], "mikrobus") <= 1

-----------------------------------------------------------------------------
(* C5: a bundle section whose non-zero id differs from the expected next   *)
(* id is not a failure: such a section, with a valid class and an id not   *)
(* yet registered, is never the section that raised.                       *)
NonIncremental(s, counter, m) ==
    /\ Keyed(s)
    /\ s.hdr.name = BUNDLE_DESC
    /\ get_int_option(s, "class", BUNDLE_DESC_CLASS_SIZE).ok
    /\ IdOf(s) # N(0)
    /\ IdOf(s) # N(counter)
    /\ IdOf(s) \notin DOMAIN m.bundle_descs

C5_NonIncrementalIsAccepted ==
    ~(pc = "raised" /\ AtSection /\ NonIncremental(cfg[idx], bundle_id, manifest))

-----------------------------------------------------------------------------
(* C6: a document with two [interface-descriptor] sections fails on the    *)
(* second with a "multiple instances" error.  Stated for the document made *)
(* of these two sections.                                                  *)
TwoInterfaceSections ==
    /\ Len(file) = 2
    /\ \A p \in 1..2 :
          file[p].kind = "block" /\ file[p].hdr = Hdr(INTERFACE_DESC, <<>>, FALSE, FALSE)

C6_SecondInterfaceFails ==
    (pc = "raised" /\ TwoInterfaceSections) =>
        /\ exc = [type |-> "Error", msg |-> "multiple instances of 'interface-descriptor'"]
        /\ Len(manifest.descriptors) = 1

-----------------------------------------------------------------------------
(* C7: round trip.  The text emitted from a Manifest that parse_file       *)
(* returned parses again, in the same process, to a Manifest with the same *)
(* ids per kind and the same field values.  Stated for the Manifests that  *)
(* have a header and an interface descriptor.                              *)

\* the fields of a descriptor but the header text of its section
Values(d) == [f \in DOMAIN d \ {"section"} |-> d[f]]
ValuesOfMap(dict_) == [k \in DOMAIN dict_ |-> Values(dict_[k])]
ValuesOfOpt(o) == IF o = None THEN None ELSE Some(Values(o[1]))

SameValues(a, b) ==
    /\ a.header = b.header
    /\ ValuesOfOpt(a.interface_desc) = ValuesOfOpt(b.interface_desc)
    /\ ValuesOfOpt(a.mikrobus_desc) = ValuesOfOpt(b.mikrobus_desc)
    /\ ValuesOfMap(a.device_descs) = ValuesOfMap(b.device_descs)
    /\ ValuesOfMap(a.property_descs) = ValuesOfMap(b.property_descs)
    /\ ValuesOfMap(a.string_descs) = ValuesOfMap(b.string_descs)
    /\ ValuesOfMap(a.bundle_descs) = ValuesOfMap(b.bundle_descs)
    /\ ValuesOfMap(a.cport_descs) = ValuesOfMap(b.cport_descs)

C7_RoundTrip ==
    (src = "emitted" /\ orig[1].header # None /\ orig[1].interface_desc # None) =>
        /\ pc # "raised"
        /\ pc = "returned" => SameValues(result[1], orig[1])

-----------------------------------------------------------------------------
(* C8: width enforcement.  An integer option or id token declared w bytes  *)
(* wide is accepted if and only if its value v satisfies                   *)
(* 0 <= v <= 2^(8w) - 1, that is, v is not negative and has at most 2w     *)
(* hexadecimal digits; and every numeric field stored in the Manifest fits *)
(* its declared width.                                                     *)

Fits(v, num_bytes) == ~v.neg /\ Len(v.mag) <= 2 * num_bytes

\* the declared width of the integer options of each kind of section
DeclaredWidth(name, option) ==
    IF name = DEVICE_DESC /\ option = "max-speed-hz" THEN MAX_SPEED_DESC_SIZE
    ELSE ID_DESC_SIZE

IntegerOptions(name) ==
    CASE name = MNFS_HEADER -> {"version-major", "version-minor"}
      [] name = INTERFACE_DESC -> {"vendor-string-id", "product-string-id"}
      [] name = MIKROBUS_DESC -> {MIKROBUS_STATES[i] : i \in 1..Len(MIKROBUS_STATES)}
      [] name = PROPERTY_DESC -> {"name-string-id", "type"}
      [] name = BUNDLE_DESC -> {"class"}
      [] name = CPORT_DESC -> {"bundle", "protocol"}
      [] name = DEVICE_DESC ->
            {"driver-string-id", "protocol", "reg", "irq", "irq-type", "max-speed-hz",
             "mode", "prop-link", "gpio-link", "reg-link", "clock-link"}
      [] OTHER -> {}

\* the integer options of s that are written as integer literals
WrittenIntegers(s) ==
    { o \in IntegerOptions(s.hdr.name) \cap DOMAIN s.opts : PyInt0(s.opts[o]).ok }

\* the numeric fields of a descriptor fit their widths
FieldsFit(d) ==
    CASE d.kind = "interface" -> Fits(d.vsid, 1) /\ Fits(d.psid, 1)
      [] d.kind = "mikrobus" -> \A n \in DOMAIN d.states : Fits(d.states[n], 1)
      [] d.kind = "string" -> Fits(d.id_, 1)
      [] d.kind = "property" -> Fits(d.id_, 1) /\ Fits(d.name_stringid, 1) /\ Fits(d.typ, 1)
      [] d.kind = "bundle" -> Fits(d.id_, 1) /\ Fits(d.class, 1)
      [] d.kind = "cport" -> Fits(d.id_, 2) /\ Fits(d.bundle, 1) /\ Fits(d.protocol, 1)
      [] d.kind = "device" ->
            /\ Fits(d.id_, 1) /\ Fits(d.driver_string_id, 1) /\ Fits(d.protocol, 1)
            /\ Fits(d.reg, 1) /\ Fits(d.irq, 1) /\ Fits(d.irq_type, 1)
            /\ Fits(d.max_speed_hz, 4) /\ Fits(d.mode, 1) /\ Fits(d.prop_link, 1)
            /\ Fits(d.gpio_link, 1) /\ Fits(d.reg_link, 1) /\ Fits(d.clock_link, 1)

\* some integer of the section is not accepted as written
SomeIntegerRejected(s) ==
    \/ s.hdr.name \in KeyedKinds /\ s.hdr.args # <<>>
       /\ ~(PyInt0(s.hdr.args[1]).ok /\ Fits(Val(PyInt0(s.hdr.args[1])), IdWidth(s)))
    \/ \E o \in IntegerOptions(s.hdr.name) \cap DOMAIN s.opts :
          ~(PyInt0(s.opts[o]).ok
            /\ Fits(Val(PyInt0(s.opts[o])), DeclaredWidth(s.hdr.name, o)))

C8_WidthEnforcement ==
    /\ \A k \in 1..Len(manifest.descriptors) : FieldsFit(manifest.descriptors[k])
    /\ manifest.header # None =>
          Fits(manifest.header[1].major, 1) /\ Fits(manifest.header[1].minor, 1)
    /\ (pc \in {"loop", "raised"} /\ AtSection) =>
          LET s == cfg[idx]
          IN  /\ \A o \in WrittenIntegers(s) :
                    get_int_option(s, o, DeclaredWidth(s.hdr.name, o)).ok
                    <=> Fits(Val(PyInt0(s.opts[o])), DeclaredWidth(s.hdr.name, o))
              /\ (s.hdr.name \in KeyedKinds /\ s.hdr.args # <<>>
                  /\ PyInt0(s.hdr.args[1]).ok) =>
                    (parse_id(s, IdWidth(s)).ok
                     <=> Fits(Val(PyInt0(s.hdr.args[1])), IdWidth(s)))
    /\ (pc = "raised" /\ exc.type = "Error"
        /\ exc.msg \in {"invalid value", "invalid id value"}) =>
          AtSection /\ SomeIntegerRejected(cfg[idx])

\* the string id 255 has been accepted, and the id 256 of the next section is
\* rejected
C8_Witness ==
    /\ pc = "raised"
    /\ AtSection
    /\ exc = [type |-> "Error", msg |-> "invalid id value"]
    /\ N(255) \in DOMAIN manifest.string_descs
    /\ cfg[idx].hdr.args = <<Dec(256)>>

-----------------------------------------------------------------------------
(* C9: version gate.  A header whose two version numbers are 1-byte values *)
(* is accepted if and only if they are (0, 1); otherwise the parse fails   *)
(* with the version-mismatch error and no header is registered.            *)

ValidHeaderFields(s) ==
    /\ IsHeaderSection(s)
    /\ get_int_option(s, "version-major", MNFS_HEADER_VERSION_SIZE).ok
    /\ get_int_option(s, "version-minor", MNFS_HEADER_VERSION_SIZE).ok

VersionOf(s) ==
    << Val(PyInt0(s.opts["version-major"])), Val(PyInt0(s.opts["version-minor"])) >>

C9_VersionGate ==
    /\ manifest.header # None => manifest.header[1] = [major |-> N(0), minor |-> N(1)]
    /\ \A j \in 1..Len(cfg) :
          (j < idx /\ IsHeaderSection(cfg[j])) =>
              ValidHeaderFields(cfg[j]) /\ VersionOf(cfg[j]) = <<N(0), N(1)>>
    /\ (pc = "raised" /\ AtSection /\ ValidHeaderFields(cfg[idx])) =>
          /\ VersionOf(cfg[idx]) # <<N(0), N(1)>>
          /\ exc = [type |-> "Error", msg |-> "invalid format version"]
          /\ manifest.header = None

\* the header of version 1.0 has been rejected
C9_Witness ==
    /\ pc = "raised"
    /\ AtSection
    /\ ValidHeaderFields(cfg[idx])
    /\ VersionOf(cfg[idx]) = <<N(1), N(0)>>
    /\ exc.msg = "invalid format version"
    /\ manifest.header = None

-----------------------------------------------------------------------------
(* C10: zero-id rule.  A string-descriptor or property-descriptor section  *)
(* with id 0 fails to parse, and the string and property maps never have   *)
(* the key 0.                                                              *)

ZeroIdSection(s) ==
    Keyed(s) /\ s.hdr.name \in {STRING_DESC, PROPERTY_DESC} /\ IdOf(s) = N(0)

C10_ZeroId ==
    /\ N(0) \notin DOMAIN manifest.string_descs
    /\ N(0) \notin DOMAIN manifest.property_descs
    /\ \A j \in 1..Len(cfg) : j < idx => ~ZeroIdSection(cfg[j])
    /\ (pc = "raised" /\ AtSection /\ ZeroIdSection(cfg[idx])) => exc.type = "Error"

\* a string-descriptor section with id 0 has been rejected for its id
C10_Witness ==
    /\ pc = "raised"
    /\ AtSection
    /\ ZeroIdSection(cfg[idx])
    /\ cfg[idx].hdr.name = STRING_DESC
    /\ exc = [type |-> "Error", msg |-> "invalid id (cannot be 0)"]

-----------------------------------------------------------------------------
(* C11: reserved ids.  A bundle section with id 0 is accepted only when    *)
(* its class is 0, and a cport section with id 0 only when its protocol is *)
(* 0: with another code the section raises the Error of its kind and is    *)
(* not registered, and with the code 0 it is registered unless the id 0 is *)
(* already taken.                                                          *)
C11_ReservedIds ==
    /\ \A j \in 1..Len(cfg) :
          (j < idx /\ ReservedIdSection(cfg[j])) => CodeOf(cfg[j]) = N(0)
    /\ (pc = "raised" /\ AtSection /\ ReservedIdSection(cfg[idx])) =>
          IF CodeOf(cfg[idx]) # N(0)
          THEN /\ exc.type = "Error"
               /\ exc.msg = IF cfg[idx].hdr.name = BUNDLE_DESC
                            THEN "invalid class (should be a 'Control' bundle)"
                            ELSE "invalid protocol (should be a 'Control' CPort)"
               /\ ~Registered(idx, manifest)
          ELSE /\ exc = [type |-> "Error", msg |-> "duplicated 'id' for descriptors"]
               /\ \E j \in 1..(idx - 1) : SameId(cfg[j], cfg[idx])

\* the bundle 0 of class 0 has been registered, and the cport 0 of protocol 3
\* is rejected
C11_Witness ==
    /\ pc = "raised"
    /\ AtSection
    /\ cfg[idx].hdr.name = CPORT_DESC
    /\ ReservedIdSection(cfg[idx])
    /\ CodeOf(cfg[idx]) = N(3)
    /\ N(0) \in DOMAIN manifest.bundle_descs
    /\ manifest.cport_descs = <<>>

-----------------------------------------------------------------------------
(* C12: in every Manifest returned by parse_file a bundle has the id 0 if  *)
(* and only if its class is 0, and a cport has the id 0 if and only if its *)
(* protocol is 0.                                                          *)
C12_ReservedBothWays ==
    pc = "returned" =>
        /\ \A k \in DOMAIN result[1].bundle_descs :
              (k = N(0)) <=> (result[1].bundle_descs[k].class = N(0))
        /\ \A k \in DOMAIN result[1].cport_descs :
              (k = N(0)) <=> (result[1].cport_descs[k].protocol = N(0))

\* C12 as amended: in every Manifest returned by parse_file the bundle of id
\* 0, if any, has the class 0 and the cport of id 0, if any, has the protocol
\* 0; a bundle or cport of another id may have the code 0 as well.
C12_ReservedImpliesCode ==
    pc = "returned" =>
        /\ \A k \in DOMAIN result[1].bundle_descs :
              /\ result[1].bundle_descs[k].id_ = k
              /\ (k = N(0)) => (result[1].bundle_descs[k].class = N(0))
        /\ \A k \in DOMAIN result[1].cport_descs :
              /\ result[1].cport_descs[k].id_ = k
              /\ (k = N(0)) => (result[1].cport_descs[k].protocol = N(0))

\* a Manifest is returned with the bundle 0 and the cport 0, both of code 0,
\* and the bundle 1 of class 0
C12_Witness ==
    /\ pc = "returned"
    /\ DOMAIN result[1].bundle_descs = {N(0), N(1)}
    /\ result[1].bundle_descs[N(1)].class = N(0)
    /\ DOMAIN result[1].cport_descs = {N(0)}

-----------------------------------------------------------------------------
(* C13: the SPI fields of a device.  When protocol = 11 both max-speed-hz  *)
(* and mode are required: a section without one of them raises the         *)
(* missing-field Error, and the device registered has the two values       *)
(* written.  When protocol # 11 the device registered has max_speed_hz = 0 *)
(* and mode = 0, whatever the section says.                                *)
C13_SpiFields ==
    /\ \A j \in 1..Len(cfg) :
          (j < idx /\ DeviceSection(cfg[j])) =>
              LET d == DescOf(j, manifest)
              IN  IF ProtocolOf(cfg[j]) = N(11)
                  THEN /\ {"max-speed-hz", "mode"} \subseteq DOMAIN cfg[j].opts
                       /\ d.max_speed_hz = Written(cfg[j], "max-speed-hz")
                       /\ d.mode = Written(cfg[j], "mode")
                  ELSE d.max_speed_hz = N(0) /\ d.mode = N(0)
    /\ ( /\ pc = "raised"
         /\ AtSection
         /\ DeviceSection(cfg[idx])
         /\ ProtocolOf(cfg[idx]) = N(11)
         /\ ~({"max-speed-hz", "mode"} \subseteq DOMAIN cfg[idx].opts) )
       => exc = MissingField /\ ~Registered(idx, manifest)

\* an I2C device whose section has max-speed-hz and mode is registered, and an
\* SPI device without max-speed-hz is rejected
C13_Witness ==
    /\ pc = "raised"
    /\ AtSection
    /\ DeviceSection(cfg[idx])
    /\ ProtocolOf(cfg[idx]) = N(11)
    /\ "max-speed-hz" \notin DOMAIN cfg[idx].opts
    /\ exc = MissingField
    /\ \E j \in 1..(idx - 1) :
          /\ DeviceSection(cfg[j])
          /\ ProtocolOf(cfg[j]) = N(3)
          /\ "max-speed-hz" \in DOMAIN cfg[j].opts
          /\ DescOf(j, manifest).max_speed_hz = N(0)

-----------------------------------------------------------------------------
(* C14: the reg field of a device.  When protocol # 4 reg is required, for *)
(* SPI devices too: a section without it raises the missing-field Error,   *)
(* and the device registered has the value written.  When protocol = 4     *)
(* reg may be omitted, and the device registered has reg = 0.              *)
C14_RegField ==
    /\ \A j \in 1..Len(cfg) :
          (j < idx /\ DeviceSection(cfg[j])) =>
              LET d == DescOf(j, manifest)
              IN  IF ProtocolOf(cfg[j]) # N(4)
                  THEN "reg" \in DOMAIN cfg[j].opts /\ d.reg = Written(cfg[j], "reg")
                  ELSE d.reg = N(0)
    /\ ( /\ pc = "raised"
         /\ AtSection
         /\ DeviceSection(cfg[idx])
         /\ ProtocolOf(cfg[idx]) # N(4)
         /\ "reg" \notin DOMAIN cfg[idx].opts )
       => exc = MissingField /\ ~Registered(idx, manifest)

\* a UART device without reg is registered with reg = 0, and an SPI device
\* without reg is rejected
C14_Witness ==
    /\ pc = "raised"
    /\ AtSection
    /\ DeviceSection(cfg[idx])
    /\ ProtocolOf(cfg[idx]) = N(11)
    /\ {"max-speed-hz", "mode"} \subseteq DOMAIN cfg[idx].opts
    /\ "reg" \notin DOMAIN cfg[idx].opts
    /\ exc = MissingField
    /\ \E j \in 1..(idx - 1) :
          /\ DeviceSection(cfg[j])
          /\ ProtocolOf(cfg[j]) = N(4)
          /\ "reg" \notin DOMAIN cfg[j].opts
          /\ DescOf(j, manifest).reg = N(0)

-----------------------------------------------------------------------------
(* C20: irq and irq-type of a device go as a pair, by the presence of irq. *)
(* With irq in the section irq-type is required (without it the section    *)
(* raises the missing-field Error) and the device registered has the two   *)
(* values written; without irq the device has irq = 0 and irq_type = 0,    *)
(* also when the section has irq-type.  Each of the four link options is   *)
(* read when the section has it, and is 0 otherwise.                       *)

\* the link options and the fields of the device they are stored in
LinkFields ==
    ("prop-link" :> "prop_link") @@ ("gpio-link" :> "gpio_link") @@
    ("reg-link" :> "reg_link") @@ ("clock-link" :> "clock_link")

C20_IrqPairAndLinks ==
    /\ \A j \in 1..Len(cfg) :
          (j < idx /\ DeviceSection(cfg[j])) =>
              LET d == DescOf(j, manifest)
                  s == cfg[j]
              IN  /\ IF "irq" \in DOMAIN s.opts
                     THEN /\ "irq-type" \in DOMAIN s.opts
                          /\ d.irq = Written(s, "irq")
                          /\ d.irq_type = Written(s, "irq-type")
                     ELSE d.irq = N(0) /\ d.irq_type = N(0)
                  /\ \A o \in DOMAIN LinkFields :
                        d[LinkFields[o]] = IF o \in DOMAIN s.opts THEN Written(s, o)
                                           ELSE N(0)
    /\ ( /\ pc = "raised"
         /\ AtSection
         /\ DeviceSection(cfg[idx])
         /\ device_maxspeedhz_mode(cfg[idx], ProtocolOf(cfg[idx])).ok
         /\ device_reg(cfg[idx], ProtocolOf(cfg[idx])).ok
         /\ "irq" \in DOMAIN cfg[idx].opts
         /\ get_int_option(cfg[idx], "irq", ID_DESC_SIZE).ok
         /\ "irq-type" \notin DOMAIN cfg[idx].opts )
       => exc = MissingField /\ ~Registered(idx, manifest)

\* a device with irq-type and without irq is registered with irq_type = 0 and
\* with two of the four links, and a device with irq and without irq-type is
\* rejected
C20_Witness ==
    /\ pc = "raised"
    /\ AtSection
    /\ DeviceSection(cfg[idx])
    /\ "irq" \in DOMAIN cfg[idx].opts
    /\ "irq-type" \notin DOMAIN cfg[idx].opts
    /\ exc = MissingField
    /\ \E j \in 1..(idx - 1) :
          /\ DeviceSection(cfg[j])
          /\ DOMAIN cfg[j].opts \cap {"irq", "irq-type"} = {"irq-type"}
          /\ DOMAIN cfg[j].opts \cap DOMAIN LinkFields = {"gpio-link", "clock-link"}
          /\ DescOf(j, manifest).irq_type = N(0)
          /\ DescOf(j, manifest).gpio_link = N(8)
          /\ DescOf(j, manifest).prop_link = N(0)

-----------------------------------------------------------------------------
(* C19: section dispatch is total and exclusive.  Every section accepted   *)
(* has a header parse_file has a branch for and is registered once, as the *)
(* kind its exact name or its first token says; every other header of the  *)
(* document, and every header with leading or trailing blanks, raises an   *)
(* Error and nothing is registered for it: no document with such a header  *)
(* yields a Manifest.                                                      *)
C19_DispatchTotal ==
    /\ \A j \in 1..Len(cfg) :
          j < idx =>
              /\ Recognized(cfg[j].hdr)
              /\ Registered(j, manifest)
              /\ ~IsHeaderSection(cfg[j]) =>
                    /\ DescOf(j, manifest).kind = KindOf(cfg[j].hdr)
                    /\ Cardinality({ k \in 1..Len(manifest.descriptors) :
                                       manifest.descriptors[k].section = cfg[j].hdr }) = 1
    /\ (pc = "raised" /\ AtSection /\ ~Recognized(cfg[idx].hdr)) =>
          /\ exc.type = "Error"
          /\ exc.msg = IF cfg[idx].hdr.pad THEN "invalid spaces" ELSE "invalid descriptor"
          /\ ~Registered(idx, manifest)
    /\ pc = "returned" =>
          \A p \in 1..Len(file) : file[p].kind = "block" => Recognized(file[p].hdr)

-----------------------------------------------------------------------------
(* C15: the parent of a string or property descriptor is set at most once. *)
(* An assignment to a descriptor that has no parent stores the parent and  *)
(* sets used; an assignment to one that has a parent raises the Error      *)
(* "multiple references" and changes nothing; and whatever the caller      *)
(* does with the Manifest, a parent once stored stays, with used.          *)
C15_ParentSetOnce ==
    [][ (pc = "returned" /\ pc' = "returned" /\ result' # None) =>
          \A kind \in {"string", "property"} :
             \A k \in Children(result[1], kind) :
                LET d  == Child(result[1], kind, k)
                    d2 == Child(result'[1], kind, k)
                IN  /\ d.parent # None => d2 = d
                    /\ d2.parent # None => d2.used
                    /\ \A p \in Descriptors(result[1]) :
                          SetParentOn(kind, k, p) =>
                              IF d.parent # None
                              THEN exc' = MultipleReferences /\ result' = result
                              ELSE /\ d2.parent = Some(Ref(p))
                                   /\ exc' = NoExc
                                   /\ \A i \in 1..Len(result'[1].descriptors) :
                                         result'[1].descriptors[i].section = d.section
                                         => result'[1].descriptors[i] = d2
      ]_vars

\* a string descriptor has the interface descriptor as its parent, and a second
\* assignment has raised
C15_Witness ==
    /\ pc = "returned"
    /\ exc = MultipleReferences
    /\ result[1].interface_desc # None
    /\ \E k \in DOMAIN result[1].string_descs :
          /\ result[1].string_descs[k].parent = Some(Ref(result[1].interface_desc[1]))
          /\ result[1].string_descs[k].used

-----------------------------------------------------------------------------
-----------------------------------------------------------------------------
(* C17: the emitted text lists the blocks in the order header, interface,  *)
(* mikrobus, devices, properties, strings, bundles, cports; the blocks of  *)
(* an id-keyed kind are in strictly ascending order of their ids, and they *)
(* are those of the descriptors registered, one each; the header, the      *)
(* interface and the mikrobus block are there when the Manifest has them.  *)
C17_EmissionOrder ==
    Emitted =>
        LET m  == result[1]
            bs == BlocksOf(out[1])
        IN  /\ \A p, q \in 1..Len(bs) :
                  p < q => \/ Rank(bs[p]) < Rank(bs[q])
                           \/ /\ Rank(bs[p]) = Rank(bs[q])
                              /\ bs[p].hdr.name \in KeyedKinds
                              /\ Less(BlockId(bs[p]), BlockId(bs[q]))
            /\ IdsOf(bs, DEVICE_DESC) = DOMAIN m.device_descs
            /\ IdsOf(bs, PROPERTY_DESC) = DOMAIN m.property_descs
            /\ IdsOf(bs, STRING_DESC) = DOMAIN m.string_descs
            /\ IdsOf(bs, BUNDLE_DESC) = DOMAIN m.bundle_descs
            /\ IdsOf(bs, CPORT_DESC) = DOMAIN m.cport_descs
            /\ (\E p \in 1..Len(bs) : bs[p].hdr.name = MNFS_HEADER) <=> m.header # None
            /\ (\E p \in 1..Len(bs) : bs[p].hdr.name = INTERFACE_DESC)
                  <=> m.interface_desc # None
            /\ (\E p \in 1..Len(bs) : bs[p].hdr.name = MIKROBUS_DESC)
                  <=> m.mikrobus_desc # None

\* the file declares the string 16, the string 2 and a device, in this order:
\* the text has the device, the string 2 and the string 16
C17_Witness ==
    /\ Emitted
    /\ src = "file"
    /\ Len(cfg) = 3
    /\ cfg[1].hdr = Hdr(STRING_DESC, <<Dec(16)>>, FALSE, FALSE)
    /\ cfg[2].hdr = Hdr(STRING_DESC, <<Dec(2)>>, FALSE, FALSE)
    /\ cfg[3].hdr.name = DEVICE_DESC
    /\ LET bs == BlocksOf(out[1])
       IN  /\ Len(bs) = 3
           /\ bs[1].hdr.name = DEVICE_DESC
           /\ BlockId(bs[2]) = N(2)
           /\ BlockId(bs[3]) = N(16)

-----------------------------------------------------------------------------
(* C18: in the text emitted from a Manifest that parse_file returned, the  *)
(* block of a string whose id is the vendor string id or the product       *)
(* string id of the interface descriptor has a comment.                    *)
C18_StringAnnotated ==
    (Emitted /\ result[1].interface_desc # None) =>
        \A p \in 1..Len(out[1]) :
           LET b == out[1][p]
           IN  ( /\ b.kind = "block"
                 /\ b.hdr.name = STRING_DESC
                 /\ BlockId(b) \in { result[1].interface_desc[1].vsid,
                                      result[1].interface_desc[1].psid } )
               => b.comment # <<>>

-----------------------------------------------------------------------------
(* C21: property value arrays.  The width of each type is that of the      *)
(* table (types 0-3, 7 and 8: 1 byte; 4: 2 bytes; 5: 4 bytes; 6: 8 bytes). *)
(* Every element of the value of a property registered fits the width of   *)
(* the type of the property; a property section whose value has an element *)
(* out of the width, is not wrapped in '<' and '>', or is longer than 255  *)
(* characters is never passed by the section loop: the parse is aborted at *)
(* it, nothing is returned and no property is registered for it.           *)

\* s is a property section whose id, name-string-id and type are accepted and
\* that has a value
PropertySection(s) ==
    /\ Keyed(s)
    /\ s.hdr.name = PROPERTY_DESC
    /\ IdOf(s) # N(0)
    /\ get_int_option(s, "name-string-id", ID_DESC_SIZE).ok
    /\ get_int_option(s, "type", ID_DESC_SIZE).ok
    /\ "value" \in DOMAIN s.opts
TypeOf(s) == Val(get_int_option(s, "type", ID_DESC_SIZE))
\* the value of s is '<' ... '>'
IsWrapped(s) == s.opts["value"].kind = "arr" /\ s.opts["value"].lt /\ s.opts["value"].gt
\* some element of the value of s is a number out of the width of the type of s
OutOfWidth(s) ==
    /\ IsWrapped(s)
    /\ TypeOf(s) \in DOMAIN PROP_VALUE_SIZE
    /\ \E i \in 1..Len(s.opts["value"].elems) :
          LET e == PyInt10(s.opts["value"].elems[i])
          IN  e.ok /\ ~Fits(Val(e), PROP_VALUE_SIZE[TypeOf(s)])
BadValue(s) ==
    PropertySection(s) /\ (OutOfWidth(s) \/ ~IsWrapped(s) \/ TextLen(s.opts["value"]) > 255)

C21_ValueWidths ==
    /\ DOMAIN PROP_VALUE_SIZE = { N(t) : t \in 0..8 }
    /\ \A t \in 0..8 :
          PROP_VALUE_SIZE[N(t)] = CASE t \in {0, 1, 2, 3, 7, 8} -> 1
                                    [] t = 4 -> 2
                                    [] t = 5 -> 4
                                    [] t = 6 -> 8
    /\ \A k \in DOMAIN manifest.property_descs :
          LET d == manifest.property_descs[k]
          IN  \A i \in 1..Len(d.value) :
                 /\ d.typ \in DOMAIN PROP_VALUE_SIZE
                 /\ Fits(d.value[i], PROP_VALUE_SIZE[d.typ])
    /\ \A j \in 1..Len(cfg) : j < idx => ~BadValue(cfg[j])
    /\ (pc \in {"loop", "raised"} /\ AtSection /\ BadValue(cfg[idx])) =>
          /\ result = None
          /\ ~Registered(idx, manifest)
          /\ \A k \in 1..Len(manifest.descriptors) :
                 manifest.descriptors[k].section # cfg[idx].hdr

\* the value <65535> of the type 4 has been accepted, and the parse is aborted
\* at the value <65536> of the type 4
C21_Witness ==
    /\ pc = "raised"
    /\ AtSection
    /\ idx = 2
    /\ BadValue(cfg[idx])
    /\ OutOfWidth(cfg[idx])
    /\ TypeOf(cfg[idx]) = N(4)
    /\ N(3) \in DOMAIN manifest.property_descs
    /\ manifest.property_descs[N(3)].value = <<N(65535)>>
    /\ N(4) \notin DOMAIN manifest.property_descs

-----------------------------------------------------------------------------
(* C22: the expected-next-id counter of the bundles starts at 1, and every *)
(* step of the section loop on a bundle section whose id and class are     *)
(* accepted advances it by exactly one when the id is not 0, whether or    *)
(* not the id is the counter's value, and leaves it when the id is 0.      *)

\* s is a bundle section whose id and class are accepted: the section loop
\* calls BundleDescriptor for it
BundleSection(s) ==
    /\ Keyed(s)
    /\ s.hdr.name = BUNDLE_DESC
    /\ get_int_option(s, "class", BUNDLE_DESC_CLASS_SIZE).ok

C22_CounterAdvances ==
    [][ (pc = "loop" /\ idx <= Len(cfg) /\ BundleSection(cfg[idx])) =>
            bundle_id' = IF IdOf(cfg[idx]) # N(0) THEN bundle_id + 1 ELSE bundle_id ]_vars

-----------------------------------------------------------------------------
(* C23: the expected-next-id counter of the bundles is the only state a    *)
(* parse shares with the next one.  The step that ends a parse, returned   *)
(* or raised, and the step that starts the next one leave the counter as   *)
(* it is, so a parse starts with the value the parse before ended with;    *)
(* and a parse starts with a Manifest that has no header, no interface, no *)
(* mikrobus descriptor, five empty maps and an empty descriptors list.     *)

\* the Manifest m is fresh and empty
Fresh(m) ==
    /\ m.header = None /\ m.interface_desc = None /\ m.mikrobus_desc = None
    /\ m.descriptors = <<>>
    /\ \A f \in {"string_descs", "property_descs", "device_descs", "bundle_descs",
                  "cport_descs"} : DOMAIN m[f] = {}

C23_OnlyCounterShared ==
    [][ /\ (pc \in {"returned", "raised"} /\ pc' = "idle") => bundle_id' = bundle_id
        /\ (pc \in {"idle", "returned"} /\ pc' \in {"loop", "raised"}) =>
              /\ bundle_id' = bundle_id
              /\ Fresh(manifest')
              /\ result' = None ]_vars

\* the document of the one section [bundle-descriptor 1] is at its first
\* section with the counter at 2, the value a parse before left, and with an
\* empty Manifest
C23_Witness ==
    /\ pc = "loop"
    /\ idx = 1
    /\ Len(cfg) = 1
    /\ BundleSection(cfg[1])
    /\ IdOf(cfg[1]) = N(1)
    /\ bundle_id = 2
    /\ Fresh(manifest)

-----------------------------------------------------------------------------
(* C24: the mikrobus descriptor has no duplicate guard.  The registration  *)
(* of a mikrobus descriptor on a Manifest that has one does not fail:      *)
(* afterwards the mikrobus descriptor of the Manifest is the one just      *)
(* registered, and it is the last of the descriptors list, where the one   *)
(* registered before stays.                                                *)
C24_MikrobusLastWins ==
    [][ \A desc \in Built :
          ( /\ desc.kind = "mikrobus"
            /\ pc = "returned"
            /\ result[1].mikrobus_desc # None
            /\ AddDescOn(desc) )
          => /\ exc' = NoExc
             /\ result'[1].mikrobus_desc = Some(desc)
             /\ result'[1].descriptors = Append(result[1].descriptors, desc)
      ]_vars

\* the Manifest has had the mikrobus descriptor of the states 1 registered, and
\* then that of the states 0, which is its mikrobus descriptor
C24_Witness ==
    /\ pc = "returned"
    /\ exc = NoExc
    /\ Len(result[1].descriptors) = 2
    /\ result[1].descriptors[1].kind = "mikrobus"
    /\ result[1].descriptors[1].states = States(N(1))
    /\ result[1].descriptors[2].kind = "mikrobus"
    /\ result[1].descriptors[2].states = States(N(0))
    /\ result[1].mikrobus_desc = Some(result[1].descriptors[2])

-----------------------------------------------------------------------------
(* C25: after a successful parse the descriptors list has the descriptors  *)
(* of the document in the order of declaration: the k-th entry of the list *)
(* is the descriptor of the k-th section of the source that is no header,  *)
(* so each declared descriptor is there exactly once and a descriptor      *)
(* declared before another precedes it.                                    *)

\* the sections of the source text but the header, in the order of the text
DeclaredDescriptors(text) ==
    LET IsDescriptor(item) == item.kind = "block" /\ ~IsHeaderSection(item)
    IN  SelectSeq(text, IsDescriptor)

C25_DeclarationOrder ==
    pc = "returned" =>
        LET declared == DeclaredDescriptors(file)
            list     == result[1].descriptors
        IN  /\ Len(list) = Len(declared)
            /\ \A k \in 1..Len(list) :
                  /\ list[k].section = declared[k].hdr
                  /\ list[k].kind = KindOf(declared[k].hdr)
            /\ \A j, k \in 1..Len(list) : j # k => list[j].section # list[k].section

\* the file declares the string 16, a cport and the string 2: the list has
\* them in this order
C25_Witness ==
    /\ pc = "returned"
    /\ src = "file"
    /\ Len(file) = 3
    /\ file[1].hdr = Hdr(STRING_DESC, <<Dec(16)>>, FALSE, FALSE)
    /\ file[2].hdr.name = CPORT_DESC
    /\ file[3].hdr = Hdr(STRING_DESC, <<Dec(2)>>, FALSE, FALSE)
    /\ Len(result[1].descriptors) = 3
    /\ result[1].descriptors[1].id_ = N(16)
    /\ result[1].descriptors[2].kind = "cport"
    /\ result[1].descriptors[3].id_ = N(2)

-----------------------------------------------------------------------------
(* C26: the Manifest under the add methods.  Whatever add calls have been  *)
(* made, successful or failing: a descriptor stored in one of the five     *)
(* id-keyed maps is stored under its own id and is exactly once in the     *)
(* descriptors list, and the header is not in the list; a call never       *)
(* replaces or removes a descriptor stored in a map; a call of an id-keyed *)
(* add with an id the map has raises the duplicate-id Error and leaves the *)
(* Manifest as it is; a call that raises leaves the list, one that does    *)
(* not appends its descriptor to it, and add_header leaves the list.       *)

\* the five id-keyed maps of a Manifest, and the one of a kind
KeyedMaps == {"string_descs", "property_descs", "device_descs", "bundle_descs", "cport_descs"}
MapOf(kind) ==
    CASE kind = "string" -> "string_descs"
      [] kind = "property" -> "property_descs"
      [] kind = "device" -> "device_descs"
      [] kind = "bundle" -> "bundle_descs"
      [] kind = "cport" -> "cport_descs"
DuplicatedId == [type |-> "Error", msg |-> "duplicated 'id' for descriptors"]

\* the maps and the list of the Manifest m agree
MapsAgree(m) ==
    /\ \A f \in KeyedMaps :
          \A k \in DOMAIN m[f] :
             /\ m[f][k].id_ = k
             /\ MapOf(m[f][k].kind) = f
             /\ Cardinality({ i \in 1..Len(m.descriptors) : m.descriptors[i] = m[f][k] }) = 1
    /\ m.header # None =>
          \A i \in 1..Len(m.descriptors) : m.descriptors[i] # m.header[1]

C26_AddsKeepMaps ==
    /\ [](pc = "returned" => MapsAgree(result[1]))
    /\ [][ (pc = "returned" /\ pc' = "returned") =>
              LET m == result[1]
                  n == result'[1]
              IN  /\ \A f \in KeyedMaps :
                        \A k \in DOMAIN m[f] : k \in DOMAIN n[f] /\ n[f][k] = m[f][k]
                  /\ \A desc \in Built :
                        AddDescOn(desc) =>
                            /\ ( /\ desc.kind \in {"string", "property", "device", "bundle",
                                                  "cport"}
                                 /\ desc.id_ \in DOMAIN m[MapOf(desc.kind)] )
                               => exc' = DuplicatedId /\ n = m
                            /\ IF exc' = NoExc
                               THEN n.descriptors = Append(m.descriptors, desc)
                               ELSE n = m
                  /\ AddHeader => n.descriptors = m.descriptors
          ]_vars

\* the Manifest has the string 1 as its one descriptor, and the add of a string
\* of the id 1 has been rejected as a duplicate
C26_Witness ==
    /\ pc = "returned"
    /\ exc = DuplicatedId
    /\ Len(result[1].descriptors) = 1
    /\ DOMAIN result[1].string_descs = {N(1)}
    /\ result[1].descriptors[1] = result[1].string_descs[N(1)]

-----------------------------------------------------------------------------
(* C27: parse_file links nothing and checks no reference.  In every        *)
(* Manifest it returned each string and property descriptor has no parent  *)
(* and is not used, and each bundle descriptor has no cports and is not    *)
(* used; and a section that names other descriptors by id (interface,      *)
(* property, cport, device) and is accepted in a document of its own,      *)
(* where the ids it names are those of no descriptor, is accepted in any   *)
(* document unless its own id is that of an earlier section of its kind.   *)

\* s names other descriptors by id
Referring(s) ==
    /\ ~s.hdr.pad
    /\ \/ s.hdr.name = INTERFACE_DESC /\ s.hdr.args = <<>>
       \/ s.hdr.name \in {PROPERTY_DESC, CPORT_DESC, DEVICE_DESC}

C27_NoCrossLinks ==
    /\ pc = "returned" =>
          LET m == result[1]
          IN  /\ \A k \in DOMAIN m.string_descs :
                    m.string_descs[k].parent = None /\ ~m.string_descs[k].used
              /\ \A k \in DOMAIN m.property_descs :
                    m.property_descs[k].parent = None /\ ~m.property_descs[k].used
              /\ \A k \in DOMAIN m.bundle_descs :
                    m.bundle_descs[k].cports = <<>> /\ ~m.bundle_descs[k].used
              /\ \A i \in 1..Len(m.descriptors) :
                    m.descriptors[i].kind \in {"string", "property", "bundle"} =>
                        m.descriptors[i] = m[MapOf(m.descriptors[i].kind)][m.descriptors[i].id_]
    /\ (pc = "raised" /\ AtSection /\ Referring(cfg[idx]) /\ WellFormed(cfg[idx])) =>
          \E j \in 1..(idx - 1) : SameId(cfg[j], cfg[idx])

\* the Manifest returned has the bundle 1 and its cport 1, and the cport 2 of
\* the bundle 7, which it has not: the bundle 1 has no cports and is not used
C27_Witness ==
    /\ pc = "returned"
    /\ src = "file"
    /\ DOMAIN result[1].bundle_descs = {N(1)}
    /\ DOMAIN result[1].cport_descs = {N(1), N(2)}
    /\ result[1].cport_descs[N(1)].bundle = N(1)
    /\ result[1].cport_descs[N(2)].bundle = N(7)
    /\ result[1].bundle_descs[N(1)].cports = <<>>
    /\ ~result[1].bundle_descs[N(1)].used

-----------------------------------------------------------------------------
(* C28: emission does not depend on the order of declaration.  The text    *)
(* emitted from the Manifest of a file is compared with that of every file *)
(* that has the same sections in another order and parses from the same    *)
(* value of the bundle counter.                                            *)

\* the texts that have the sections of text, in every order
Reordered(text) ==
    { [i \in 1..Len(text) |-> text[p[i]]] : p \in Permutations(1..Len(text)) }
\* the value of the bundle counter when the parse of the Manifest returned
\* began: each bundle of a non-zero id registered has advanced it by one
StartCounter ==
    bundle_id - Cardinality(DOMAIN result[1].bundle_descs \ {N(0)})
\* the Manifest of a file is emitted, and parse_file as a function gives it
EmittedFromFile ==
    /\ Emitted
    /\ src = "file"
    /\ parse_file(file, StartCounter).val = result
    /\ parse_file(file, StartCounter).bundle_id = bundle_id

\* C28 as stated: for every file with the same sections in a different order
\* that parses, the text is the same and the descriptors lists differ.
C28_OrderIndependent ==
    (Emitted /\ src = "file") =>
        /\ EmittedFromFile
        /\ \A other \in Reordered(file) \ {file} :
              LET r == parse_file(other, StartCounter)
              IN  r.ok => /\ Manifest_str(Val(r)) = out[1]
                          /\ Val(r).descriptors # result[1].descriptors

\* C28 amended: for every file with the same sections in a different order
\* that parses, the text is the same; the descriptors lists differ when the
\* sections other than the header are in a different order, and are the same
\* when only the header has another place.
C28_OrderIndependentText ==
    (Emitted /\ src = "file") =>
        /\ EmittedFromFile
        /\ \A other \in Reordered(file) \ {file} :
              LET r == parse_file(other, StartCounter)
              IN  r.ok => /\ Manifest_str(Val(r)) = out[1]
                          /\ Val(r).descriptors # result[1].descriptors
                             <=> DeclaredDescriptors(other) # DeclaredDescriptors(file)

\* the file declares the string 2, the header and the string 1; the file that
\* declares the string 1 before the string 2 parses to another list, and the
\* file with the header first to the same list
C28_Witness ==
    /\ Emitted
    /\ src = "file"
    /\ Len(file) = 3
    /\ file[1].hdr = Hdr(STRING_DESC, <<Dec(2)>>, FALSE, FALSE)
    /\ file[2].hdr.name = MNFS_HEADER
    /\ file[3].hdr = Hdr(STRING_DESC, <<Dec(1)>>, FALSE, FALSE)
    /\ \E other \in Reordered(file) \ {file} :
          /\ parse_file(other, StartCounter).ok
          /\ Val(parse_file(other, StartCounter)).descriptors # result[1].descriptors
    /\ \E other \in Reordered(file) \ {file} :
          /\ parse_file(other, StartCounter).ok
          /\ Val(parse_file(other, StartCounter)).descriptors = result[1].descriptors

====
